---- MODULE Spec2Model ----
(***************************************************************************)
(* deepInsight: the parallel generator Executor                            *)
(* (deepinsight/utils/parallel_worker_utils.py) and the Orchestrator       *)
(* phase machine (deepinsight/core/orchestrator.py) with the Planner's     *)
(* response parser (deepinsight/core/agent/planner.py).                    *)
(*                                                                         *)
(* Spec      - one generator-mode Executor call, its caller pulling the    *)
(*             stream, and the pool threads of the ThreadPoolExecutor.     *)
(* OrchSpec  - one Orchestrator.run over a Planner built from history.     *)
(* DialogSpec - one role-playing dialogue of the Researcher for one search *)
(*             plan (deepinsight/core/agent/researcher.py).                *)
(* StreamSpec - StreamChatAgent._handle_stream_response over one streamed  *)
(*             model response (deepinsight/core/agent/stream_chat_agent.py)*)
(* ReportSpec - the Reporter's citation merge: _get_citation_dicts line by *)
(*             line, then _process_final_result                           *)
(*             (deepinsight/core/agent/reporter.py).                       *)
(* AgentSpec - one BaseAgent.run, over a streaming or a plain chat agent   *)
(*             (deepinsight/core/agent/base.py).                           *)
(* LifecycleSpec - add_step and fail calls on one ResearchExecution        *)
(*             (deepinsight/core/agent/researcher.py).                     *)
(* PoolFairSpec - Spec with pool threads that keep running.                *)
(* SharedPoolSpec - Spec with a second call's work items in the same pool, *)
(*             pool threads that keep running and a caller that keeps      *)
(*             calling next().                                             *)
(* SearchSpec - one query_worker of the search tool, request by request    *)
(*             (integrations/mcps/tavily.py).                              *)
(* RolePlaySpec - one StreamRolePlaying.run: a user turn and an assistant *)
(*             turn, for every shape of the two responses                  *)
(*             (core/agent/researcher.py).                                 *)
(* StepSpec   - one StreamChatAgent.stream_step turn with its tool calls  *)
(*             (core/agent/stream_chat_agent.py).                          *)
(* ServiceSpec - one research request of DeepResearchService: the thread   *)
(*             that pumps the Orchestrator's stream and persists, and the  *)
(*             pool threads that buffer messages (service/deep_research.py)*)
(***************************************************************************)
EXTENDS Integers, Sequences, FiniteSets, TLC

(* ------------------------------ bounds --------------------------------- *)
\* most workloads handed to one Executor call
MaxWorkloads == 3
\* most messages one workload's generator yields
MaxMsgs == 2
\* largest pool size (num_procs) tried
MaxProcs == 2
\* longest free-form model response, in tokens
MaxRespLen == 3
\* longest text between <plan> and </plan> in a well-formed plan response
MaxPlanLen == 3
\* longest plan body of the latest assistant message in the Planner's history
MaxHistLen == 1
\* most messages one agent (planner, researcher, reporter) yields in a phase
MaxPhaseMsgs == 2
\* largest round_limit of a Researcher tried
MaxRounds == 2
\* longest content of a dialogue turn, in tokens
MaxContentLen == 1
\* most messages the agents of one dialogue yield
MaxDlgMsgs == 1
\* most chunks of one streamed model response
MaxChunks == 3
\* most choices of one chunk
MaxChoices == 2
\* most lines of the citation blocks handed to _get_citation_dicts
MaxCitLines == 3
\* most items (placeholders or words) of the body text being assembled
MaxBodyItems == 2
\* most messages the stream_step under one BaseAgent.run yields
MaxStreamMsgs == 2
\* most add_step / fail calls made on one ResearchExecution
MaxOps == 3
\* latest reading of the clock
MaxClock == 2
\* messages one agent response carries, at most
MaxResponseMsgs == 2
\* work items another call submits to the same Executor, at most
MaxOther == 2
\* model responses of one stream_step turn that ask for tools, at most
MaxToolResponses == 2
\* tool calls one model response asks for, at most
MaxRequests == 2
\* items one research request handles at most
MaxItems == 5
\* `for retry in range(3)`: requests one query_worker makes at most
RetryRange == 3

VARIABLES
    \* ---- Executor call (parallel_worker_utils.py) ----
    nWorkloads,   \* len(workloads)
    num_procs,    \* pool size given to ThreadPoolExecutor
    pc,           \* where the caller's generator __do_generator_call stands
    futures,      \* the list `futures`: workload index of each submitted Future
    queue,        \* the pool's FIFO work queue (workload indices)
    fstate,       \* state of each workload's Future
    fresult,      \* the tuple a finished _generator_worker returned
    yields,       \* the list `yields` of each running _generator_worker
    k,            \* loop position in `futures` (cancel loop / collect loop)
    e,            \* local `e` of the collect loop
    it,           \* local `it` being replayed by `yield from it`
    result,       \* local `result` of the collect loop
    pos,          \* next element of `it` to yield
    ret,          \* local list `ret`
    delivered,    \* messages the caller has received, in order
    callResult,   \* value the call returned to the caller (None until then)
    errors,       \* exceptions the call raised to the caller, in order
    \* ---- history of what the workloads did ----
    produced,     \* messages each workload's generator has yielded
    outcome,      \* "none" | "ok" | "err": how each workload's generator ended
    invoked,      \* whether the pool ran _generator_worker for the workload
    doneOrder,    \* workload indices in the order their generators ended
    suspended,    \* the call's generator is paused at a yield, waiting for next()
    \* ---- Orchestrator.run (orchestrator.py) and its Planner (planner.py) ----
    opc,                  \* where the generator Orchestrator.run stands
    current_phase,        \* Orchestrator.current_phase
    start_time,           \* Orchestrator.start_time has been recorded
    end_time,             \* Orchestrator.end_time has been recorded
    current_search_plan,  \* Planner.current_search_plan
    plan_result,          \* local plan_result of Orchestrator.run
    research_executions,  \* local research_executions of Orchestrator.run
    out,                  \* items Orchestrator.run has yielded to its caller
    orchResult,           \* OrchestrationResult returned (None until then)
    orchError,            \* OrchestrationException raised (None until then)
    researcherCalled,     \* history: Researcher.run was started in this run
    agentYielded,         \* history: items the phase generators (planner.run,
                          \*   researcher.run, reporter.run) yielded, in order
    \* ---- Researcher._search_info_with_role_playing (researcher.py) ----
    round_limit,      \* Researcher.round_limit
    dpc,              \* where the generator of the dialogue stands
    round,            \* loop variable _round
    research_result,  \* local research_result (a ResearchExecution)
    user_msg,         \* local user_msg of StreamRolePlaying.run
    rp,               \* the pair StreamRolePlaying.run returned for the round
    dlgOut,           \* number of messages the dialogue has re-yielded
    dlgResult,        \* ResearchExecution returned (None until then)
    dlgError,         \* exception the dialogue raised (None until then)
    roundsStarted,    \* history: rounds begun (calls of StreamRolePlaying.run)
    firstSentinel,    \* history: round whose user turn first held the
                      \*   sentinel (0: none so far)
    termReported,     \* history: some agent call reported terminated
    cur_query,        \* local query of _search_info_with_role_playing
    user_info,        \* info["tool_calls"] of the round's user response
    agentCalls,       \* history: the agent calls made, with argument and response
    \* ---- StreamChatAgent._handle_stream_response (stream_chat_agent.py) ----
    spc,            \* where the generator _handle_stream_response stands
    chunk,          \* the chunk being handled: its list of choices
    choiceIdx,      \* position of the inner loop in chunk.choices
    chunksRead,     \* number of chunks read from the response so far
    first_stream,   \* local first_stream
    content_dict,   \* local content_dict: choice indices with content so far
    finish_reasons_dict,  \* local finish_reasons_dict: indices with a reason
    emitted,        \* kinds of the messages yielded with stream_id, in order
    payloads,       \* payloads of the messages yielded, in order
    arrived,        \* history: non-null delta contents of the chunks, in arrival order
    backend_runs,   \* history: number of model_backend.run calls
    \* ---- report assembly (reporter.py) ----
    rpc,                  \* where the assembly stands
    citLines,             \* the lines of citation_list scanned so far, in order
    citation_dict,        \* local citation_dict, in insertion order
    total_duplicate_map,  \* local total_duplicate_map, in insertion order
    duplicate_count,      \* local duplicate_count
    cleaned_text,         \* argument cleaned_text of _process_final_result
    assembled,            \* the assembled report (None until then)
    repError,             \* exception the assembly raised (None until then)
    \* ---- BaseAgent.run (base.py) ----
    agent_class,    \* the subclass of BaseAgent that is run
    streaming,      \* self.agent is a StreamChatAgent
    run_query,      \* argument query of run
    apc,            \* where the generator run stands
    streamYielded,  \* history: messages stream_step has yielded, in order
    agentOut,       \* messages run has yielded to its caller, in order
    stepCalls,      \* history: prompts step / stream_step was called with
    agentResponse,  \* local response (None until the agent call returned)
    agentOutput,    \* value run returned (None until then)
    postRunCalls,   \* history: number of post_run calls
    \* ---- ResearchExecution (researcher.py) ----
    execution,      \* the ResearchExecution object (None: not constructed)
    clock,          \* what datetime.now() returns
    opsDone,        \* number of add_step / fail calls made on it
    \* ---- query_worker (tavily.py) ----
    qpc,              \* where the generator query_worker stands
    retry,            \* loop variable retry
    include_domains,  \* argument include_domains
    exclude_domains,  \* argument exclude_domains
    attempts,         \* history: outcome of every requests.post made, in order
    response_dict,    \* value query_worker returned (None until then)
    qwError,          \* exception query_worker raised (None until then)
    \* ---- DeepResearchService (deep_research.py) ----
    svcPc,            \* where research / _run_orchestration stands
    current_orchestration_phase,
    buffered,         \* messages pool threads have buffered, not yet replayed
    message_db_item,  \* TRUE once a message row is held
    report_db_item,   \* TRUE once a report row is held
    dbCalls,          \* history: every repository call, with the calling thread
    handled,          \* items taken from the Orchestrator's stream so far
    \* ---- StreamChatAgent.stream_step (stream_chat_agent.py) ----
    turnPc,              \* where the generator stream_step stands
    iteration_count,
    tool_call_requests,  \* response.tool_call_requests of the latest response
    reqPos,              \* position of the for loop over them
    tool_call_records,
    requested,           \* history: every tool call any response asked for
    stepLog,             \* history: model requests issued and items yielded
    stepResponse,        \* the ChatAgentResponse returned (None until then)
    \* ---- work items of another call on the same Executor ----
    otherPending,        \* submitted, waiting for a pool thread
    otherRunning,        \* being run by a pool thread
    otherDone,           \* ended
    \* ---- StreamRolePlaying.run (researcher.py) ----
    runPc,               \* where the generator run stands
    user_resp,           \* what user_agent.run returned (None until then)
    assistant_resp,      \* what assistant_agent.run returned (None until then)
    invokedRoles,        \* history: the agents run, in order
    runReturn,           \* the pair run returned (None until then)
    runError             \* the exception run raised (None until then)

execVars == <<nWorkloads, num_procs, pc, futures, queue, fstate, fresult, yields,
              k, e, it, result, pos, ret, delivered, callResult, errors,
              produced, outcome, invoked, doneOrder, suspended>>

orchVars == <<opc, current_phase, start_time, end_time, current_search_plan,
              plan_result, research_executions, out, orchResult, orchError,
              researcherCalled, agentYielded>>

dlgVars == <<round_limit, dpc, round, research_result, user_msg, rp, dlgOut,
             dlgResult, dlgError, roundsStarted, firstSentinel, termReported,
             cur_query, user_info, agentCalls>>

stmVars == <<spc, chunk, choiceIdx, chunksRead, first_stream, content_dict,
             finish_reasons_dict, emitted, payloads, arrived, backend_runs>>

repVars == <<rpc, citLines, citation_dict, total_duplicate_map,
             duplicate_count, cleaned_text, assembled, repError>>

agtVars == <<agent_class, streaming, run_query, apc, streamYielded, agentOut,
             stepCalls, agentResponse, agentOutput, postRunCalls>>

lifVars == <<execution, clock, opsDone>>

qwVars == <<qpc, retry, include_domains, exclude_domains, attempts,
            response_dict, qwError>>

svcVars == <<svcPc, current_orchestration_phase, buffered, message_db_item,
             report_db_item, dbCalls, handled>>

stepVars == <<turnPc, iteration_count, tool_call_requests, reqPos, tool_call_records,
              requested, stepLog, stepResponse>>

shrVars == <<otherPending, otherRunning, otherDone>>

rolVars == <<runPc, user_resp, assistant_resp, invokedRoles,
             runReturn, runError>>

vars == <<execVars, orchVars, dlgVars, stmVars, repVars, agtVars, lifVars, qwVars, svcVars, stepVars, shrVars, rolVars>>

\* what the actions of one component leave alone
nonExecVars == <<orchVars, dlgVars, stmVars, repVars, agtVars, lifVars, qwVars, svcVars, stepVars, shrVars, rolVars>>

nonOrchVars == <<execVars, dlgVars, stmVars, repVars, agtVars, lifVars, qwVars, svcVars, stepVars, shrVars, rolVars>>

nonDlgVars == <<execVars, orchVars, stmVars, repVars, agtVars, lifVars, qwVars, svcVars, stepVars, shrVars, rolVars>>

nonStmVars == <<execVars, orchVars, dlgVars, repVars, agtVars, lifVars, qwVars, svcVars, stepVars, shrVars, rolVars>>

nonRepVars == <<execVars, orchVars, dlgVars, stmVars, agtVars, lifVars, qwVars, svcVars, stepVars, shrVars, rolVars>>

nonAgtVars == <<execVars, orchVars, dlgVars, stmVars, repVars, lifVars, qwVars, svcVars, stepVars, shrVars, rolVars>>

nonLifVars == <<execVars, orchVars, dlgVars, stmVars, repVars, agtVars, qwVars, svcVars, stepVars, shrVars, rolVars>>

nonQwVars == <<execVars, orchVars, dlgVars, stmVars, repVars, agtVars, lifVars, svcVars, stepVars, shrVars, rolVars>>

nonSvcVars == <<execVars, orchVars, dlgVars, stmVars, repVars, agtVars, lifVars, qwVars, stepVars, shrVars, rolVars>>

nonStepVars == <<execVars, orchVars, dlgVars, stmVars, repVars, agtVars, lifVars, qwVars, svcVars, shrVars, rolVars>>

nonShrVars == <<execVars, orchVars, dlgVars, stmVars, repVars, agtVars, lifVars, qwVars, svcVars, stepVars, rolVars>>

nonRolVars == <<execVars, orchVars, dlgVars, stmVars, repVars, agtVars, lifVars, qwVars, svcVars, stepVars, shrVars>>

(* ------------------------------ values --------------------------------- *)
Workloads == 0..(MaxWorkloads - 1)

None == [kind |-> "none"]
\* the exception raised by workload w's generator
Err(w) == [kind |-> "error", of |-> w]
\* the value returned by workload w's generator
Result(w) == [kind |-> "value", of |-> w]
\* the j-th message yielded by workload w's generator
Msg(w, j) == <<w, j>>
\* concurrent.futures.CancelledError raised by Future.result()
CancelledError == [kind |-> "cancelled"]
ListOf(s) == [kind |-> "list", items |-> s]

(* --------------------------- pure helpers ------------------------------ *)
\* variant: the comprehension runs over workloads instead of workloads[1:]
PooledWorkloads_All(n) == [j \in 1..n |-> j - 1]

\* workloads[1:] - the workloads handed to the pool, in submission order
PooledWorkloads(n) == [j \in 1..(n - 1) |-> j]

\* variant: cancel() has no effect
FutureCancel_Noop(st) == st

\* variant: cancel() also stops a running work item
FutureCancel_Interrupt(st) ==
    IF st \in {"PENDING", "RUNNING"} THEN "CANCELLED" ELSE st

\* Future.cancel(): only a pending future is cancelled
FutureCancel(st) == IF st = "PENDING" THEN "CANCELLED" ELSE st

\* variant: yields.insert(0, next(it))
BufferAppend_Front(buf, m) == <<m>> \o buf

\* yields.append(next(it)) in _generator_worker
BufferAppend(buf, m) == Append(buf, m)

\* variant: `if e: raise e` placed before `yield from it`
ReplayBuffer_RaiseFirst(buf, err) == IF err # None THEN <<>> ELSE buf

\* the messages `yield from it` hands to the caller for a collected future
ReplayBuffer(buf, err) == buf

\* variant: the error of a buffered workload is swallowed
ShouldRaise_Never(err) == FALSE

\* `if e:` after the replay
ShouldRaise(err) == err # None

\* variant: ret.insert(1, result) - latest collected result right after ret0
AppendResult_Insert(r, v) == <<Head(r)>> \o <<v>> \o Tail(r)

\* ret.append(result)
AppendResult(r, v) == Append(r, v)

Running == {w \in Workloads : fstate[w] = "RUNNING"}

\* a thread is spawned for every work item, however many are running
ThreadFree_Unbounded == TRUE

\* variant: a thread that has ended a work item of the other call is lost
ThreadFree_Leaked == Cardinality(Running) + otherRunning + otherDone < num_procs

\* ThreadPoolExecutor(num_procs): a work item is taken from the queue only by
\* one of the at most num_procs pool threads that is not running another
ThreadFree == Cardinality(Running) + otherRunning < num_procs

(* ------------------- text, as sequences of tokens ---------------------- *)
\* the finalize command "开始研究"
START == "START"
POpen == "<plan>"
PClose == "</plan>"
NL == "NL"
SP == "SP"
Tokens == {START, POpen, PClose, NL, SP, "a", "b"}
BodyTokens == {NL, SP, "a", "b"}
Str(t) == [kind |-> "str", s |-> t]

SeqsUpTo(S, n) == UNION {[1..m -> S] : m \in 0..n}
\* model responses tried: every short text, and every well-formed plan block
Responses ==
    SeqsUpTo(Tokens, MaxRespLen)
        \cup {<<POpen>> \o b \o <<PClose>> : b \in SeqsUpTo(BodyTokens, MaxPlanLen)}
\* content of the latest non-user historical message handed to the Planner
\* (empty: no history, or an empty message)
HistTexts ==
    {<<>>, <<"a">>}
        \cup {<<POpen>> \o b \o <<PClose>> : b \in SeqsUpTo(BodyTokens, MaxHistLen)}

\* str.startswith("开始研究")
StartsWithStart(t) == Len(t) > 0 /\ t[1] = START
\* tok in t
Contains(t, tok) == \E i \in 1..Len(t) : t[i] = tok
\* first index >= from holding tok, 0 if none
FirstIndex(t, tok, from) ==
    IF \E i \in from..Len(t) : t[i] = tok
    THEN CHOOSE i \in from..Len(t) :
            t[i] = tok /\ \A j \in from..(i - 1) : t[j] # tok
    ELSE 0

\* re.search(r'<plan>(.*?)</plan>', t, re.DOTALL): group(1), else the whole text
PlanContent(t) ==
    LET i == FirstIndex(t, POpen, 1)
        j == IF i = 0 THEN 0 ELSE FirstIndex(t, PClose, i + 1)
    IN IF i = 0 \/ j = 0 THEN t ELSE SubSeq(t, i + 1, j - 1)

RECURSIVE SplitLines(_)
\* t.split("\n")
SplitLines(t) ==
    LET i == FirstIndex(t, NL, 1)
    IN IF i = 0 THEN <<t>>
       ELSE <<SubSeq(t, 1, i - 1)>> \o SplitLines(SubSeq(t, i + 1, Len(t)))

RECURSIVE Strip(_)
\* step.strip()
Strip(t) ==
    IF t = <<>> THEN t
    ELSE IF Head(t) = SP THEN Strip(Tail(t))
    ELSE IF t[Len(t)] = SP THEN Strip(SubSeq(t, 1, Len(t) - 1))
    ELSE t

RECURSIVE StepsToPlans(_)
\* the loop over line_steps: one SearchPlan per non-empty stripped line.
\* (title and description are cut from the same line at its first colon; no
\* text tried here holds a colon and the Orchestrator reads origin_plan only)
StepsToPlans(lines) ==
    IF lines = <<>> THEN <<>>
    ELSE LET step == Strip(Head(lines))
         IN IF step # <<>>
            THEN <<[origin_plan |-> step]>> \o StepsToPlans(Tail(lines))
            ELSE StepsToPlans(Tail(lines))

RECURSIVE JoinLines_Reversed(_)
\* variant: joins the lines last to first
JoinLines_Reversed(lines) ==
    IF lines = <<>> THEN <<>>
    ELSE IF Len(lines) = 1 THEN lines[1]
    ELSE JoinLines_Reversed(Tail(lines)) \o <<NL>> \o lines[1]

RECURSIVE JoinLines(_)
\* "\n".join(lines)
JoinLines(lines) ==
    IF lines = <<>> THEN <<>>
    ELSE IF Len(lines) = 1 THEN lines[1]
    ELSE lines[1] \o <<NL>> \o JoinLines(Tail(lines))

(* ------------------------ Planner (planner.py) ------------------------- *)
PlanResult(plans, status, info) ==
    [kind |-> "PlanResult", search_plans |-> plans, status |-> status,
     information_required |-> info]

NoPlanException == [kind |-> "NoPlanException"]
TypeError == [kind |-> "TypeError"]
\* an error raised by the model backend, a dialogue or a writing task
AgentError(who) == [kind |-> "AgentError", of |-> who]

\* Planner._default_plan_parser(full_response) with self.current_search_plan = cur:
\* the PlanResult returned, or the exception raised
DefaultPlanParser(full_response, cur) ==
    IF /\ ~StartsWithStart(full_response)
       /\ (~Contains(full_response, POpen) \/ ~Contains(full_response, PClose))
    THEN [raised |-> FALSE,
          value |-> PlanResult(None, "incomplete_info", Str(full_response))]
    ELSE IF StartsWithStart(full_response)
    THEN IF cur = None
         THEN [raised |-> TRUE, value |-> NoPlanException]
         ELSE [raised |-> FALSE, value |-> [cur EXCEPT !.status = "finalized"]]
    ELSE [raised |-> FALSE,
          value |-> PlanResult(
              ListOf(StepsToPlans(SplitLines(PlanContent(full_response)))),
              "draft", None)]

\* Planner.__init__: current_search_plan from the latest non-user message
PlannerInitPlan(latest) ==
    IF latest = <<>> THEN None ELSE DefaultPlanParser(latest, None).value

\* PlanResult.requires_user_input
RequiresUserInput(pr) ==
    /\ pr.status = "incomplete_info"
    /\ pr.information_required # None
    /\ pr.information_required.s # <<>>

\* BaseAgent.run: `self.post_run(output)` creates Planner.post_run's generator
\* and drops it unstarted, so its body (current_search_plan = output) is not run
PostRunCall(cur, output) == cur

(* --------------------- Orchestrator (orchestrator.py) ------------------ *)
OrchestrationResult(report, draft, interactive, feedback) ==
    [kind |-> "OrchestrationResult", report |-> report, plan_draft |-> draft,
     require_user_interactive |-> interactive, require_user_feedback |-> feedback]

Marker(status) == [kind |-> "status", status |-> status]
AgentMsg(who, n) == [kind |-> "message", of |-> who, n |-> n]
\* a reporter message whose metadata carries the REPORT_WRITING phase tag
TaggedItem == [kind |-> "message", of |-> "reporter_tagged", n |-> 0]

\* variant: the item reaches the caller twice
Deliver_Twice(items, item) == Append(Append(items, item), item)

\* `yield from` of a phase generator / `yield item`: the item is handed to
\* the caller as it is
Deliver(items, item) == Append(items, item)

MsgCount(who) == Cardinality({i \in 1..Len(out) : out[i].kind = "message" /\ out[i].of = who})
MarkersOf(items) == SelectSeq(items, LAMBDA x : x.kind = "status")

\* variant: require_user_interactive left at its default
NeedInputResult_NoFlag(pr) ==
    OrchestrationResult(None, None, FALSE, pr.information_required)

\* the OrchestrationResult returned when the plan requires user input
NeedInputResult(pr) ==
    OrchestrationResult(None, None, TRUE, pr.information_required)

\* "\n".join([plan.origin_plan for plan in plan_result.search_plans])
PlanDraftText(pr) ==
    JoinLines([i \in 1..Len(pr.search_plans.items) |-> pr.search_plans.items[i].origin_plan])

\* the OrchestrationResult returned for a draft plan
DraftResult(pr) == OrchestrationResult(None, Str(PlanDraftText(pr)), TRUE, None)

\* plan_result.status == PlanStatus.DRAFT
IsDraft(pr) == pr.status = "draft"

(* ------------------------------- Init ---------------------------------- *)
\* an Executor call that has been made and not yet advanced
ExecRest ==
    /\ pc = "idle"
    /\ futures = <<>>
    /\ queue = <<>>
    /\ fstate = [w \in Workloads |-> "NONE"]
    /\ fresult = [w \in Workloads |-> None]
    /\ yields = [w \in Workloads |-> <<>>]
    /\ k = 0
    /\ e = None
    /\ it = <<>>
    /\ result = None
    /\ pos = 0
    /\ ret = <<>>
    /\ delivered = <<>>
    /\ callResult = None
    /\ errors = <<>>
    /\ produced = [w \in Workloads |-> <<>>]
    /\ outcome = [w \in Workloads |-> "none"]
    /\ invoked = [w \in Workloads |-> FALSE]
    /\ doneOrder = <<>>
    /\ suspended = FALSE

\* an Orchestrator whose run() has not been called
OrchRest ==
    /\ opc = "idle"
    /\ current_phase = "pending"
    /\ start_time = FALSE
    /\ end_time = FALSE
    /\ plan_result = None
    /\ research_executions = None
    /\ out = <<>>
    /\ orchResult = None
    /\ orchError = None
    /\ researcherCalled = FALSE
    /\ agentYielded = <<>>

\* a dialogue that has not been started
DlgRest ==
    /\ dpc = "idle"
    /\ round = 0
    /\ research_result = None
    /\ user_msg = None
    /\ rp = None
    /\ dlgOut = 0
    /\ dlgResult = None
    /\ dlgError = None
    /\ roundsStarted = 0
    /\ firstSentinel = 0
    /\ termReported = FALSE
    /\ cur_query = None
    /\ user_info = <<>>
    /\ agentCalls = <<>>

\* the components a specification does not exercise: an Executor that is
\* never called, an Orchestrator and a Researcher that are never run
ExecIdle == nWorkloads = 0 /\ num_procs = 1 /\ ExecRest

OrchIdle == current_search_plan = None /\ OrchRest

DlgIdle == round_limit = 1 /\ DlgRest

\* a StreamChatAgent whose model has not been called
StmIdle ==
    /\ spc = "idle"
    /\ chunk = <<>>
    /\ choiceIdx = 0
    /\ chunksRead = 0
    /\ first_stream = TRUE
    /\ content_dict = {}
    /\ finish_reasons_dict = {}
    /\ emitted = <<>>
    /\ payloads = <<>>
    /\ arrived = <<>>
    /\ backend_runs = 0

\* a Reporter that has not assembled anything
RepIdle ==
    /\ rpc = "idle"
    /\ citLines = <<>>
    /\ citation_dict = <<>>
    /\ total_duplicate_map = <<>>
    /\ duplicate_count = 0
    /\ cleaned_text = <<>>
    /\ assembled = None
    /\ repError = None

\* an agent whose run generator has been created and not yet advanced
AgtRest ==
    /\ apc = "idle"
    /\ streamYielded = <<>>
    /\ agentOut = <<>>
    /\ stepCalls = <<>>
    /\ agentResponse = None
    /\ agentOutput = None
    /\ postRunCalls = 0

AgtIdle ==
    /\ agent_class = "mock"
    /\ streaming = FALSE
    /\ run_query = <<>>
    /\ AgtRest

LifIdle ==
    /\ execution = None
    /\ clock = 0
    /\ opsDone = 0

\* a query_worker whose generator has been created and not yet advanced
QwRest ==
    /\ qpc = "idle"
    /\ retry = 0
    /\ attempts = <<>>
    /\ response_dict = None
    /\ qwError = None

QwIdle ==
    /\ include_domains = <<>>
    /\ exclude_domains = <<>>
    /\ QwRest

SvcIdle ==
    /\ svcPc = "idle"
    /\ current_orchestration_phase = "pending"
    /\ buffered = <<>>
    /\ message_db_item = FALSE
    /\ report_db_item = FALSE
    /\ dbCalls = <<>>
    /\ handled = 0

StepIdle ==
    /\ turnPc = "idle"
    /\ iteration_count = 0
    /\ tool_call_requests = <<>>
    /\ reqPos = 1
    /\ tool_call_records = <<>>
    /\ requested = <<>>
    /\ stepLog = <<>>
    /\ stepResponse = None

\* an Executor no other call is using
ShrIdle ==
    /\ otherPending = 0
    /\ otherRunning = 0
    /\ otherDone = 0

RolIdle ==
    /\ runPc = "idle"
    /\ user_resp = None
    /\ assistant_resp = None
    /\ invokedRoles = <<>>
    /\ runReturn = None
    /\ runError = None

Init ==
    /\ nWorkloads \in 0..MaxWorkloads
    /\ num_procs \in 1..MaxProcs
    /\ ExecRest
    /\ OrchIdle
    /\ DlgIdle
    /\ StmIdle
    /\ RepIdle
    /\ AgtIdle
    /\ LifIdle
    /\ QwIdle
    /\ SvcIdle
    /\ StepIdle
    /\ ShrIdle
    /\ RolIdle

(* ------------------- the caller: __do_generator_call ------------------- *)
\* first next() on the generator with no workloads: `return []`
CallEmpty ==
    /\ ~suspended
    /\ pc = "idle"
    /\ nWorkloads = 0
    /\ pc' = "returned"
    /\ callResult' = ListOf(<<>>)
    /\ UNCHANGED <<nWorkloads, num_procs, futures, queue, fstate, fresult, yields,
                   k, e, it, result, pos, ret, delivered, errors,
                   produced, outcome, invoked, doneOrder>>
    /\ UNCHANGED suspended
    /\ UNCHANGED nonExecVars

\* first next() with workloads: enter the submission comprehension
CallStart ==
    /\ ~suspended
    /\ pc = "idle"
    /\ nWorkloads > 0
    /\ pc' = "submit"
    /\ UNCHANGED <<nWorkloads, num_procs, futures, queue, fstate, fresult, yields,
                   k, e, it, result, pos, ret, delivered, callResult, errors,
                   produced, outcome, invoked, doneOrder>>
    /\ UNCHANGED suspended
    /\ UNCHANGED nonExecVars

\* variant: workload 0 may be started while submissions are outstanding
AllSubmitted_Lazy == TRUE

\* the comprehension over workloads[1:] has run to its end
AllSubmitted == Len(futures) = Len(PooledWorkloads(nWorkloads))

\* self.__executor.submit(_generator_worker, func, workload) for the next workload
Submit ==
    /\ ~suspended
    /\ pc = "submit"
    /\ Len(futures) < Len(PooledWorkloads(nWorkloads))
    /\ LET w == PooledWorkloads(nWorkloads)[Len(futures) + 1] IN
        /\ futures' = Append(futures, w)
        /\ queue' = Append(queue, w)
        /\ fstate' = [fstate EXCEPT ![w] = "PENDING"]
    /\ UNCHANGED <<nWorkloads, num_procs, pc, fresult, yields,
                   k, e, it, result, pos, ret, delivered, callResult, errors,
                   produced, outcome, invoked, doneOrder>>
    /\ UNCHANGED suspended
    /\ UNCHANGED nonExecVars

\* all submitted: func(*workloads[0]) is created and driven by `yield from`
BeginFirst ==
    /\ ~suspended
    /\ pc = "submit"
    /\ AllSubmitted
    /\ pc' = "first"
    /\ UNCHANGED <<nWorkloads, num_procs, futures, queue, fstate, fresult, yields,
                   k, e, it, result, pos, ret, delivered, callResult, errors,
                   produced, outcome, invoked, doneOrder>>
    /\ UNCHANGED suspended
    /\ UNCHANGED nonExecVars

\* workload 0 yields a message: it goes straight to the caller
FirstYield ==
    /\ ~suspended
    /\ pc = "first"
    /\ Len(produced[0]) < MaxMsgs
    /\ LET m == Msg(0, Len(produced[0]) + 1) IN
        /\ produced' = [produced EXCEPT ![0] = Append(@, m)]
        /\ delivered' = Append(delivered, m)
    /\ UNCHANGED <<nWorkloads, num_procs, pc, futures, queue, fstate, fresult, yields,
                   k, e, it, result, pos, ret, callResult, errors,
                   outcome, invoked, doneOrder>>
    /\ suspended' = TRUE
    /\ UNCHANGED nonExecVars

\* workload 0 returns: ret = [ret0]; e = None; start the collect loop
FirstReturn ==
    /\ ~suspended
    /\ pc = "first"
    /\ outcome' = [outcome EXCEPT ![0] = "ok"]
    /\ doneOrder' = Append(doneOrder, 0)
    /\ ret' = <<Result(0)>>
    /\ e' = None
    /\ k' = 1
    /\ pc' = "collect"
    /\ UNCHANGED <<nWorkloads, num_procs, futures, queue, fstate, fresult, yields,
                   it, result, pos, delivered, callResult, errors,
                   produced, invoked>>
    /\ UNCHANGED suspended
    /\ UNCHANGED nonExecVars

\* workload 0 raises: enter `except Exception`, start the cancel loop
FirstRaise ==
    /\ ~suspended
    /\ pc = "first"
    /\ outcome' = [outcome EXCEPT ![0] = "err"]
    /\ doneOrder' = Append(doneOrder, 0)
    /\ k' = 1
    /\ pc' = "cancel"
    /\ UNCHANGED <<nWorkloads, num_procs, futures, queue, fstate, fresult, yields,
                   e, it, result, pos, ret, delivered, callResult, errors,
                   produced, invoked>>
    /\ UNCHANGED suspended
    /\ UNCHANGED nonExecVars

\* `for f in futures: f.cancel()`, one future per step
CancelFuture ==
    /\ ~suspended
    /\ pc = "cancel"
    /\ k <= Len(futures)
    /\ fstate' = [fstate EXCEPT ![futures[k]] = FutureCancel(@)]
    /\ k' = k + 1
    /\ UNCHANGED <<nWorkloads, num_procs, pc, futures, queue, fresult, yields,
                   e, it, result, pos, ret, delivered, callResult, errors,
                   produced, outcome, invoked, doneOrder>>
    /\ UNCHANGED suspended
    /\ UNCHANGED nonExecVars

\* bare `raise` after the cancel loop: workload 0's error reaches the caller
RaiseFirst ==
    /\ ~suspended
    /\ pc = "cancel"
    /\ k > Len(futures)
    /\ pc' = "raised"
    /\ errors' = Append(errors, Err(0))
    /\ UNCHANGED <<nWorkloads, num_procs, futures, queue, fstate, fresult, yields,
                   k, e, it, result, pos, ret, delivered, callResult,
                   produced, outcome, invoked, doneOrder>>
    /\ UNCHANGED suspended
    /\ UNCHANGED nonExecVars

\* one iteration head of `for i, f in enumerate(futures)`:
\*   if e: f.cancel(); continue
\*   it, result, e = f.result()      (blocks until the future is done)
CollectFuture ==
    /\ ~suspended
    /\ pc = "collect"
    /\ k <= Len(futures)
    /\ LET w == futures[k] IN
        IF e # None
        THEN /\ fstate' = [fstate EXCEPT ![w] = FutureCancel(@)]
             /\ k' = k + 1
             /\ UNCHANGED <<pc, it, result, e, pos, errors>>
        ELSE /\ fstate[w] \in {"FINISHED", "CANCELLED"}
             /\ IF fstate[w] = "CANCELLED"
                THEN /\ pc' = "raised"
                     /\ errors' = Append(errors, CancelledError)
                     /\ UNCHANGED <<it, result, e, pos>>
                ELSE /\ it' = ReplayBuffer(fresult[w][1], fresult[w][3])
                     /\ result' = fresult[w][2]
                     /\ e' = fresult[w][3]
                     /\ pos' = 1
                     /\ pc' = "replay"
                     /\ UNCHANGED errors
             /\ UNCHANGED <<fstate, k>>
    /\ UNCHANGED <<nWorkloads, num_procs, futures, queue, fresult, yields,
                   ret, delivered, callResult,
                   produced, outcome, invoked, doneOrder>>
    /\ UNCHANGED suspended
    /\ UNCHANGED nonExecVars

\* `yield from it`: the next buffered message goes to the caller
ReplayYield ==
    /\ ~suspended
    /\ pc = "replay"
    /\ pos <= Len(it)
    /\ delivered' = Append(delivered, it[pos])
    /\ pos' = pos + 1
    /\ UNCHANGED <<nWorkloads, num_procs, pc, futures, queue, fstate, fresult, yields,
                   k, e, it, result, ret, callResult, errors,
                   produced, outcome, invoked, doneOrder>>
    /\ suspended' = TRUE
    /\ UNCHANGED nonExecVars

\* buffer exhausted and `if e:` holds: `raise e`
ReplayRaise ==
    /\ ~suspended
    /\ pc = "replay"
    /\ pos > Len(it)
    /\ ShouldRaise(e)
    /\ pc' = "raised"
    /\ errors' = Append(errors, e)
    /\ UNCHANGED <<nWorkloads, num_procs, futures, queue, fstate, fresult, yields,
                   k, e, it, result, pos, ret, delivered, callResult,
                   produced, outcome, invoked, doneOrder>>
    /\ UNCHANGED suspended
    /\ UNCHANGED nonExecVars

\* buffer exhausted, no error: ret.append(result), next future
ReplayDone ==
    /\ ~suspended
    /\ pc = "replay"
    /\ pos > Len(it)
    /\ ~ShouldRaise(e)
    /\ ret' = AppendResult(ret, result)
    /\ k' = k + 1
    /\ pc' = "collect"
    /\ UNCHANGED <<nWorkloads, num_procs, futures, queue, fstate, fresult, yields,
                   e, it, result, pos, delivered, callResult, errors,
                   produced, outcome, invoked, doneOrder>>
    /\ UNCHANGED suspended
    /\ UNCHANGED nonExecVars

\* loop over: `return ret`
ReturnRet ==
    /\ ~suspended
    /\ pc = "collect"
    /\ k > Len(futures)
    /\ pc' = "returned"
    /\ callResult' = ListOf(ret)
    /\ UNCHANGED <<nWorkloads, num_procs, futures, queue, fstate, fresult, yields,
                   k, e, it, result, pos, ret, delivered, errors,
                   produced, outcome, invoked, doneOrder>>
    /\ UNCHANGED suspended
    /\ UNCHANGED nonExecVars

\* the caller calls next() on the paused generator: it runs on from the yield
Resume ==
    /\ suspended
    /\ suspended' = FALSE
    /\ UNCHANGED <<nWorkloads, num_procs, pc, futures, queue, fstate, fresult, yields,
                   k, e, it, result, pos, ret, delivered, callResult, errors,
                   produced, outcome, invoked, doneOrder>>
    /\ UNCHANGED nonExecVars

(* ------------- the pool threads: ThreadPoolExecutor workers ------------ *)
\* a free pool thread takes the head of the queue and starts _generator_worker
PoolStart ==
    /\ queue # <<>>
    /\ ThreadFree
    /\ fstate[Head(queue)] = "PENDING"
    /\ queue' = Tail(queue)
    /\ fstate' = [fstate EXCEPT ![Head(queue)] = "RUNNING"]
    /\ invoked' = [invoked EXCEPT ![Head(queue)] = TRUE]
    /\ yields' = [yields EXCEPT ![Head(queue)] = <<>>]
    /\ UNCHANGED <<nWorkloads, num_procs, pc, futures, fresult,
                   k, e, it, result, pos, ret, delivered, callResult, errors,
                   produced, outcome, doneOrder>>
    /\ UNCHANGED suspended
    /\ UNCHANGED nonExecVars

\* a free pool thread takes a cancelled work item and drops it without running it
PoolSkipCancelled ==
    /\ queue # <<>>
    /\ ThreadFree
    /\ fstate[Head(queue)] # "PENDING"
    /\ queue' = Tail(queue)
    /\ UNCHANGED <<nWorkloads, num_procs, pc, futures, fstate, fresult, yields,
                   k, e, it, result, pos, ret, delivered, callResult, errors,
                   produced, outcome, invoked, doneOrder>>
    /\ UNCHANGED suspended
    /\ UNCHANGED nonExecVars

\* _generator_worker: yields.append(next(it))
WorkerYield(w) ==
    /\ fstate[w] = "RUNNING"
    /\ Len(produced[w]) < MaxMsgs
    /\ LET m == Msg(w, Len(produced[w]) + 1) IN
        /\ produced' = [produced EXCEPT ![w] = Append(@, m)]
        /\ yields' = [yields EXCEPT ![w] = BufferAppend(@, m)]
    /\ UNCHANGED <<nWorkloads, num_procs, pc, futures, queue, fstate, fresult,
                   k, e, it, result, pos, ret, delivered, callResult, errors,
                   outcome, invoked, doneOrder>>
    /\ UNCHANGED suspended
    /\ UNCHANGED nonExecVars

\* _generator_worker: StopIteration -> return yields, e.value, None
WorkerReturn(w) ==
    /\ fstate[w] = "RUNNING"
    /\ fresult' = [fresult EXCEPT ![w] = <<yields[w], Result(w), None>>]
    /\ fstate' = [fstate EXCEPT ![w] = "FINISHED"]
    /\ outcome' = [outcome EXCEPT ![w] = "ok"]
    /\ doneOrder' = Append(doneOrder, w)
    /\ UNCHANGED <<nWorkloads, num_procs, pc, futures, queue, yields,
                   k, e, it, result, pos, ret, delivered, callResult, errors,
                   produced, invoked>>
    /\ UNCHANGED suspended
    /\ UNCHANGED nonExecVars

\* _generator_worker: Exception e1 -> return yields, None, e1
WorkerRaise(w) ==
    /\ fstate[w] = "RUNNING"
    /\ fresult' = [fresult EXCEPT ![w] = <<yields[w], None, Err(w)>>]
    /\ fstate' = [fstate EXCEPT ![w] = "FINISHED"]
    /\ outcome' = [outcome EXCEPT ![w] = "err"]
    /\ doneOrder' = Append(doneOrder, w)
    /\ UNCHANGED <<nWorkloads, num_procs, pc, futures, queue, yields,
                   k, e, it, result, pos, ret, delivered, callResult, errors,
                   produced, invoked>>
    /\ UNCHANGED suspended
    /\ UNCHANGED nonExecVars

Next ==
    \/ CallEmpty
    \/ CallStart
    \/ Submit
    \/ BeginFirst
    \/ FirstYield
    \/ FirstReturn
    \/ FirstRaise
    \/ CancelFuture
    \/ RaiseFirst
    \/ CollectFuture
    \/ ReplayYield
    \/ ReplayRaise
    \/ ReplayDone
    \/ ReturnRet
    \/ Resume
    \/ PoolStart
    \/ PoolSkipCancelled
    \/ \E w \in Workloads : WorkerYield(w)
    \/ \E w \in Workloads : WorkerReturn(w)
    \/ \E w \in Workloads : WorkerRaise(w)

Spec == Init /\ [][Next]_vars

\* a pool thread ends the workload it runs
WorkerEnd(w) ==
    /\ fstate' = [fstate EXCEPT ![w] = "FINISHED"]
    /\ WorkerReturn(w) \/ WorkerRaise(w)

\* the pool threads keep running whatever the caller does: a free thread
\* takes the next work item and a running workload comes to its end; the
\* caller is under no obligation to call next()
PoolFairSpec ==
    /\ Init
    /\ [][Next]_vars
    /\ WF_fstate(PoolStart)
    /\ WF_queue(PoolSkipCancelled)
    /\ \A w \in Workloads : WF_fstate(WorkerEnd(w))

(* ------------- a second call on the same Executor instance ------------- *)
\* another generator-mode call submits a workload to self.__executor
OtherSubmit ==
    /\ otherPending + otherRunning + otherDone < MaxOther
    /\ otherPending' = otherPending + 1
    /\ UNCHANGED <<otherRunning, otherDone>>
    /\ UNCHANGED nonShrVars

\* a free pool thread takes a work item of the other call
OtherStart ==
    /\ otherPending > 0
    /\ ThreadFree
    /\ otherPending' = otherPending - 1
    /\ otherRunning' = otherRunning + 1
    /\ UNCHANGED otherDone
    /\ UNCHANGED nonShrVars

\* that workload's generator terminates and the thread is free again
OtherEnd ==
    /\ otherRunning > 0
    /\ otherRunning' = otherRunning - 1
    /\ otherDone' = otherDone + 1
    /\ UNCHANGED otherPending
    /\ UNCHANGED nonShrVars

SharedNext ==
    \/ Next
    \/ OtherSubmit
    \/ OtherStart
    \/ OtherEnd

\* the steps of the thread that consumes the call
CallerStep ==
    \/ CallEmpty
    \/ CallStart
    \/ Submit
    \/ BeginFirst
    \/ FirstYield
    \/ FirstReturn
    \/ FirstRaise
    \/ CancelFuture
    \/ RaiseFirst
    \/ CollectFuture
    \/ ReplayYield
    \/ ReplayRaise
    \/ ReplayDone
    \/ ReturnRet
    \/ Resume

\* what every step of the caller changes
callerAt == <<pc, suspended, k, pos, Len(futures), Len(ret)>>

\* the pool threads keep running, every workload's generator terminates, and
\* the caller consumes the call to its end
SharedPoolSpec ==
    /\ Init
    /\ [][SharedNext]_vars
    /\ WF_fstate(PoolStart)
    /\ WF_queue(PoolSkipCancelled)
    /\ \A w \in Workloads : WF_fstate(WorkerEnd(w))
    /\ WF_shrVars(OtherStart)
    /\ WF_shrVars(OtherEnd)
    /\ WF_callerAt(CallerStep)

(* ============== Orchestrator.run over a Planner with history =========== *)
OrchInit ==
    /\ ExecIdle
    /\ \E latest \in HistTexts : current_search_plan = PlannerInitPlan(latest)
    /\ OrchRest
    /\ DlgIdle
    /\ StmIdle
    /\ RepIdle
    /\ AgtIdle
    /\ LifIdle
    /\ QwIdle
    /\ SvcIdle
    /\ StepIdle
    /\ ShrIdle
    /\ RolIdle

\* `finally: self.end_time = datetime.utcnow()`: runs on every way out of the
\* try block of run (return or raise)
Finally_Skip == end_time' = end_time

Finally == end_time' = TRUE

\* the handler leaves by a normal return instead of raising
Fail_Return(exc) ==
    /\ current_phase' = "failed"
    /\ orchError' = [kind |-> "OrchestrationException",
                     stage |-> current_phase', original_error |-> exc]
    /\ Finally
    /\ opc' = "returned"

\* `except Exception as exc`: current_phase = FAILED, then the
\* OrchestrationException is built from the (already overwritten)
\* current_phase; `finally` records end_time
Fail(exc) ==
    /\ current_phase' = "failed"
    /\ orchError' = [kind |-> "OrchestrationException",
                     stage |-> current_phase', original_error |-> exc]
    /\ Finally
    /\ opc' = "raised"

\* first next(): PENDING, start_time, PLANNING, `yield PLANNING`
RunStart ==
    /\ opc = "idle"
    /\ start_time' = TRUE
    /\ current_phase' = "planning"
    /\ out' = Append(out, Marker("planning"))
    /\ opc' = "planning"
    /\ UNCHANGED <<end_time, current_search_plan, plan_result, research_executions,
                   orchResult, orchError, researcherCalled, agentYielded>>
    /\ UNCHANGED nonOrchVars

\* planner.run yields a message of its streamed model turn
PlannerMessage ==
    /\ opc = "planning"
    /\ MsgCount("planner") < MaxPhaseMsgs
    /\ LET item == AgentMsg("planner", MsgCount("planner") + 1) IN
        /\ agentYielded' = Append(agentYielded, item)
        /\ out' = Deliver(out, item)
    /\ UNCHANGED <<opc, current_phase, start_time, end_time, current_search_plan,
                   plan_result, research_executions, orchResult, orchError,
                   researcherCalled>>
    /\ UNCHANGED nonOrchVars

\* the model call of the planner turn raises
PlannerFail ==
    /\ opc = "planning"
    /\ Fail(AgentError("planner"))
    /\ UNCHANGED <<start_time, current_search_plan, plan_result, research_executions,
                   out, orchResult, researcherCalled, agentYielded>>
    /\ UNCHANGED nonOrchVars

\* the planner turn ends with a response the parser rejects (NoPlanException)
PlanParseError ==
    /\ opc = "planning"
    /\ \E r \in Responses :
        /\ DefaultPlanParser(r, current_search_plan).raised
        /\ Fail(DefaultPlanParser(r, current_search_plan).value)
    /\ UNCHANGED <<start_time, current_search_plan, plan_result, research_executions,
                   out, orchResult, researcherCalled, agentYielded>>
    /\ UNCHANGED nonOrchVars

\* the planner turn returns a plan that requires user input: early return
PlanNeedsInput ==
    /\ opc = "planning"
    /\ \E r \in Responses :
        LET parsed == DefaultPlanParser(r, current_search_plan) IN
        /\ ~parsed.raised
        /\ RequiresUserInput(parsed.value)
        /\ plan_result' = parsed.value
        /\ current_search_plan' = PostRunCall(current_search_plan, parsed.value)
        /\ orchResult' = NeedInputResult(parsed.value)
    /\ Finally
    /\ opc' = "returned"
    /\ UNCHANGED <<current_phase, start_time, research_executions, out, orchError,
                   researcherCalled, agentYielded>>
    /\ UNCHANGED nonOrchVars

\* the planner turn returns a draft: early return with the plan text
\* (joining a missing search_plans raises TypeError)
PlanDraft ==
    /\ opc = "planning"
    /\ \E r \in Responses :
        LET parsed == DefaultPlanParser(r, current_search_plan) IN
        /\ ~parsed.raised
        /\ ~RequiresUserInput(parsed.value)
        /\ IsDraft(parsed.value)
        /\ plan_result' = parsed.value
        /\ current_search_plan' = PostRunCall(current_search_plan, parsed.value)
        /\ IF parsed.value.search_plans = None
           THEN /\ Fail(TypeError)
                /\ UNCHANGED orchResult
           ELSE /\ orchResult' = DraftResult(parsed.value)
                /\ Finally
                /\ opc' = "returned"
                /\ UNCHANGED <<current_phase, orchError>>
    /\ UNCHANGED <<start_time, research_executions, out, researcherCalled, agentYielded>>
    /\ UNCHANGED nonOrchVars

\* neither branch returned: RESEARCHING, `yield RESEARCHING`
PlanProceed ==
    /\ opc = "planning"
    /\ \E r \in Responses :
        LET parsed == DefaultPlanParser(r, current_search_plan) IN
        /\ ~parsed.raised
        /\ ~RequiresUserInput(parsed.value)
        /\ ~IsDraft(parsed.value)
        /\ plan_result' = parsed.value
        /\ current_search_plan' = PostRunCall(current_search_plan, parsed.value)
    /\ current_phase' = "researching"
    /\ out' = Append(out, Marker("researching"))
    /\ opc' = "researching"
    /\ UNCHANGED <<start_time, end_time, research_executions, orchResult, orchError,
                   researcherCalled, agentYielded>>
    /\ UNCHANGED nonOrchVars

\* researcher.run: list(enumerate(plan_result.search_plans)) on a missing list
ResearchTypeError ==
    /\ opc = "researching"
    /\ plan_result.search_plans = None
    /\ researcherCalled' = TRUE
    /\ Fail(TypeError)
    /\ UNCHANGED <<start_time, current_search_plan, plan_result, research_executions,
                   out, orchResult, agentYielded>>
    /\ UNCHANGED nonOrchVars

\* researcher.run yields a message of one of its dialogues
ResearchMessage ==
    /\ opc = "researching"
    /\ plan_result.search_plans # None
    /\ plan_result.search_plans.items # <<>>
    /\ MsgCount("researcher") < MaxPhaseMsgs
    /\ researcherCalled' = TRUE
    /\ LET item == AgentMsg("researcher", MsgCount("researcher") + 1) IN
        /\ agentYielded' = Append(agentYielded, item)
        /\ out' = Deliver(out, item)
    /\ UNCHANGED <<opc, current_phase, start_time, end_time, current_search_plan,
                   plan_result, research_executions, orchResult, orchError>>
    /\ UNCHANGED nonOrchVars

\* a dialogue raises: the Executor call raises, so does researcher.run
ResearchRaise ==
    /\ opc = "researching"
    /\ plan_result.search_plans # None
    /\ plan_result.search_plans.items # <<>>
    /\ researcherCalled' = TRUE
    /\ Fail(AgentError("researcher"))
    /\ UNCHANGED <<start_time, current_search_plan, plan_result, research_executions,
                   out, orchResult, agentYielded>>
    /\ UNCHANGED nonOrchVars

\* researcher.run returns one execution per search plan:
\* REPORT_PLANNING, `yield REPORT_PLANNING`
ResearchReturn ==
    /\ opc = "researching"
    /\ plan_result.search_plans # None
    /\ researcherCalled' = TRUE
    /\ research_executions' =
          ListOf([i \in 1..Len(plan_result.search_plans.items) |->
                     [plan |-> plan_result.search_plans.items[i]]])
    /\ current_phase' = "report_planning"
    /\ out' = Append(out, Marker("report_planning"))
    /\ opc' = "reporting"
    /\ UNCHANGED <<start_time, end_time, current_search_plan, plan_result,
                   orchResult, orchError, agentYielded>>
    /\ UNCHANGED nonOrchVars

\* next(reporter_run_generator) gives an item without the write-phase tag
ReportMessage ==
    /\ opc = "reporting"
    /\ MsgCount("reporter") < MaxPhaseMsgs
    /\ LET item == AgentMsg("reporter", MsgCount("reporter") + 1) IN
        /\ agentYielded' = Append(agentYielded, item)
        /\ out' = Deliver(out, item)
    /\ UNCHANGED <<opc, current_phase, start_time, end_time, current_search_plan,
                   plan_result, research_executions, orchResult, orchError,
                   researcherCalled>>
    /\ UNCHANGED nonOrchVars

\* next(reporter_run_generator) gives an item tagged REPORT_WRITING:
\* it is replaced by the REPORT_WRITING marker
ReportWritingItem ==
    /\ opc = "reporting"
    /\ Len(SelectSeq(out, LAMBDA x : x = Marker("report_writing"))) < MaxPhaseMsgs
    /\ current_phase' = "report_writing"
    /\ agentYielded' = Append(agentYielded, TaggedItem)
    /\ out' = Append(out, Marker("report_writing"))
    /\ UNCHANGED <<opc, start_time, end_time, current_search_plan,
                   plan_result, research_executions, orchResult, orchError,
                   researcherCalled>>
    /\ UNCHANGED nonOrchVars

\* reporter.run raises
ReportRaise ==
    /\ opc = "reporting"
    /\ Fail(AgentError("reporter"))
    /\ UNCHANGED <<start_time, current_search_plan, plan_result, research_executions,
                   out, orchResult, researcherCalled, agentYielded>>
    /\ UNCHANGED nonOrchVars

\* StopIteration of reporter.run: COMPLETED, return the report
ReportReturn ==
    /\ opc = "reporting"
    /\ current_phase' = "completed"
    /\ orchResult' = OrchestrationResult(Str(<<"report">>), None, FALSE, None)
    /\ Finally
    /\ opc' = "returned"
    /\ UNCHANGED <<start_time, current_search_plan, plan_result, research_executions,
                   out, orchError, researcherCalled, agentYielded>>
    /\ UNCHANGED nonOrchVars

OrchNext ==
    \/ RunStart
    \/ PlannerMessage
    \/ PlannerFail
    \/ PlanParseError
    \/ PlanNeedsInput
    \/ PlanDraft
    \/ PlanProceed
    \/ ResearchTypeError
    \/ ResearchMessage
    \/ ResearchRaise
    \/ ResearchReturn
    \/ ReportMessage
    \/ ReportWritingItem
    \/ ReportRaise
    \/ ReportReturn

OrchSpec == OrchInit /\ [][OrchNext]_vars

(* ============ Researcher._search_info_with_role_playing ================ *)
\* the sentinel of the default termination predicate
TASK_DONE == "TASK_DONE"

\* contents a user turn may have; with and without the sentinel
UserContents == {Str(t) : t \in SeqsUpTo({"q", TASK_DONE}, MaxContentLen)}

\* contents an assistant turn may have
AssistantContents == {Str(<<"ans">>), Str(<<TASK_DONE>>)}

\* camel ChatAgentResponse(msgs, terminated, info); msgs holds message
\* contents, info the list under info["tool_calls"] (empty when absent)
ChatAgentResponse(msgs, terminated, info) ==
    [msgs |-> msgs, terminated |-> terminated, info |-> info]

RuntimeError == [kind |-> "RuntimeError"]

\* ChatAgentResponse.msg: the single message, an error unless msgs holds
\* exactly one
MsgOf(resp) ==
    IF Len(resp.msgs) = 1
    THEN [raised |-> FALSE, value |-> resp.msgs[1]]
    ELSE [raised |-> TRUE, value |-> RuntimeError]

\* ExecutionStep(content=..., tool_calls=...); tool_calls defaults to None
ExecutionStep(content, tool_calls) ==
    [content |-> content, tool_calls |-> tool_calls]

\* the tool-calling record a turn of a round may report
ToolCallingRecord(who, r) == [tool |-> "search", by |-> who, round |-> r]

\* info["tool_calls"] a turn may report: none, or one record of its own
ToolCallInfos(who, r) == {<<>>, <<ToolCallingRecord(who, r)>>}

\* info.get("tool_calls") if info.get("tool_calls") else None
ToolCallsOf(info) == IF info # <<>> THEN ListOf(info) ELSE None

\* variant: the assistant step is appended before the user step
RoundSteps_AssistantFirst(assistant_response, user_response) ==
    <<ExecutionStep(MsgOf(assistant_response).value,
                    ToolCallsOf(assistant_response.info)),
      ExecutionStep(MsgOf(user_response).value, ToolCallsOf(user_response.info))>>

\* the two steps built from the pair of a round, in the order of their
\* add_step calls
RoundSteps(assistant_response, user_response) ==
    <<ExecutionStep(MsgOf(user_response).value, ToolCallsOf(user_response.info)),
      ExecutionStep(MsgOf(assistant_response).value,
                    ToolCallsOf(assistant_response.info))>>

\* the research question the dialogue is run for
DlgQuery == Str(<<"Q">>)

\* get_prompt(RESEARCH_ROLE_PLAYING_USER_USER, query=..., current_plan=...):
\* the template with both variables filled in
RolePlayingUserPrompt(question, current_plan) ==
    Str(<<"<topic>">> \o question.s \o <<"</topic>", "<task>">>
        \o current_plan \o <<"</task>">>)

\* one agent call: who was called, in which round, with which argument, and
\* what it answered
AgentCall(who, r, arg, content, terminated, info) ==
    [role |-> who, round |-> r, query |-> arg, content |-> content,
     terminated |-> terminated, info |-> info]

\* ResearchExecution(plan=search_plan)
ResearchExecution(plan) ==
    [plan |-> plan, steps |-> <<>>, current_status |-> "pending",
     end_time |-> None]

\* a reading of datetime.now()
DateTime(t) == [kind |-> "datetime", at |-> t]

\* ResearchExecution.fail: an error step is appended, the status becomes
\* FAILED and end_time is set to the current time
FailExecution(exec, error, now) ==
    [exec EXCEPT !.steps = Append(@, ExecutionStep([error |-> error], None)),
                 !.current_status = "failed",
                 !.end_time = DateTime(now)]

\* ResearchExecution.add_step
AddStep(exec, step) ==
    [exec EXCEPT !.steps = Append(@, step),
                 !.current_status = IF @ = "pending" THEN "running" ELSE @]

\* _default_should_terminate_callback: "TASK_DONE" in execution_step.content
ShouldTerminate(step) == Contains(step.content.s, TASK_DONE)

\* `for _round in range(self.round_limit)`: another round is due
InRange_Inclusive(r, limit) == r <= limit

InRange(r, limit) == r < limit

\* the search plan the dialogue is run for
DlgPlan == [origin_plan |-> <<"a">>]

DialogInit ==
    /\ ExecIdle
    /\ OrchIdle
    /\ round_limit \in 1..MaxRounds
    /\ DlgRest
    /\ StmIdle
    /\ RepIdle
    /\ AgtIdle
    /\ LifIdle
    /\ QwIdle
    /\ SvcIdle
    /\ StepIdle
    /\ ShrIdle
    /\ RolIdle

\* first next(): the ResearchExecution and the StreamRolePlaying are built
DlgStart ==
    /\ dpc = "idle"
    /\ research_result' = ResearchExecution(DlgPlan)
    /\ cur_query' = DlgQuery
    /\ round' = 0
    /\ dpc' = "loop"
    /\ UNCHANGED <<round_limit, user_msg, rp, dlgOut, dlgResult, dlgError,
                   roundsStarted, firstSentinel, termReported, user_info,
                   agentCalls>>
    /\ UNCHANGED nonDlgVars

\* head of the for loop: start the round's StreamRolePlaying.run, or, the
\* range being exhausted, return research_result
DlgLoop ==
    /\ dpc = "loop"
    /\ IF InRange(round, round_limit)
       THEN /\ roundsStarted' = roundsStarted + 1
            /\ rp' = None
            /\ user_msg' = None
            /\ dpc' = "user"
            /\ UNCHANGED dlgResult
       ELSE /\ dlgResult' = research_result
            /\ dpc' = "returned"
            /\ UNCHANGED <<roundsStarted, rp, user_msg>>
    /\ UNCHANGED <<round_limit, round, research_result, dlgOut, dlgError,
                   firstSentinel, termReported, cur_query, user_info, agentCalls>>
    /\ UNCHANGED nonDlgVars

\* a message of the running agent turn is re-yielded (`yield each`)
DlgYield ==
    /\ dpc \in {"user", "assistant"}
    /\ dlgOut < MaxDlgMsgs
    /\ dlgOut' = dlgOut + 1
    /\ UNCHANGED <<round_limit, dpc, round, research_result, user_msg, rp,
                   dlgResult, dlgError, roundsStarted, firstSentinel,
                   termReported, cur_query, user_info, agentCalls>>
    /\ UNCHANGED nonDlgVars

\* the model call of the running agent turn raises
DlgAgentRaise ==
    /\ dpc \in {"user", "assistant"}
    /\ dlgError' = AgentError(dpc)
    /\ dpc' = "raised"
    /\ UNCHANGED <<round_limit, round, research_result, user_msg, rp, dlgOut,
                   dlgResult, roundsStarted, firstSentinel, termReported,
                   cur_query, user_info, agentCalls>>
    /\ UNCHANGED nonDlgVars

\* StreamRolePlaying.run: the user agent's response; terminated, or content
\* the predicate accepts, ends the run with two empty responses
UserTurn ==
    /\ dpc = "user"
    /\ \E c \in UserContents, t \in BOOLEAN,
          info \in ToolCallInfos("user", roundsStarted) :
        /\ agentCalls' = Append(agentCalls,
               AgentCall("user", roundsStarted, cur_query, c, t, info))
        /\ firstSentinel' = IF firstSentinel = 0 /\ ShouldTerminate(ExecutionStep(c, None))
                            THEN roundsStarted ELSE firstSentinel
        /\ termReported' = (termReported \/ t)
        /\ IF t \/ ShouldTerminate(ExecutionStep(c, None))
           THEN /\ rp' = [assistant |-> ChatAgentResponse(<<>>, FALSE, <<>>),
                          user |-> ChatAgentResponse(<<>>, t, info)]
                /\ dpc' = "round_end"
                /\ UNCHANGED <<user_msg, user_info>>
           ELSE /\ user_msg' = c
                /\ user_info' = info
                /\ dpc' = "assistant"
                /\ UNCHANGED rp
    /\ UNCHANGED <<round_limit, round, research_result, dlgOut, dlgResult,
                   dlgError, roundsStarted, cur_query>>
    /\ UNCHANGED nonDlgVars

\* StreamRolePlaying.run: the assistant agent's response
AssistantTurn ==
    /\ dpc = "assistant"
    /\ \E c \in AssistantContents, t \in BOOLEAN,
          info \in ToolCallInfos("assistant", roundsStarted) :
        /\ agentCalls' = Append(agentCalls,
               AgentCall("assistant", roundsStarted, user_msg, c, t, info))
        /\ termReported' = (termReported \/ t)
        /\ rp' = IF t
                 THEN [assistant |-> ChatAgentResponse(<<>>, t, info),
                       user |-> ChatAgentResponse(<<user_msg>>, FALSE, user_info)]
                 ELSE [assistant |-> ChatAgentResponse(<<c>>, t, info),
                       user |-> ChatAgentResponse(<<user_msg>>, FALSE, user_info)]
    /\ dpc' = "round_end"
    /\ UNCHANGED <<round_limit, round, research_result, user_msg, dlgOut,
                   dlgResult, dlgError, roundsStarted, firstSentinel,
                   cur_query, user_info>>
    /\ UNCHANGED nonDlgVars

\* StopIteration of StreamRolePlaying.run: both steps are built from the .msg
\* of the two responses and appended, user step first; break on a terminated
\* user response or on the predicate, else the next round
RoundEnd ==
    /\ dpc = "round_end"
    /\ LET a == MsgOf(rp.assistant)
           u == MsgOf(rp.user)
       IN IF a.raised \/ u.raised
          THEN /\ dlgError' = IF a.raised THEN a.value ELSE u.value
               /\ dpc' = "raised"
               /\ UNCHANGED <<research_result, round, dlgResult, cur_query>>
          ELSE /\ research_result' =
                     AddStep(AddStep(research_result,
                                     RoundSteps(rp.assistant, rp.user)[1]),
                             RoundSteps(rp.assistant, rp.user)[2])
               /\ UNCHANGED dlgError
               /\ IF rp.user.terminated \/ ShouldTerminate(ExecutionStep(u.value, None))
                  THEN /\ dlgResult' = research_result'
                       /\ dpc' = "returned"
                       /\ UNCHANGED <<round, cur_query>>
                  ELSE /\ cur_query' = u.value
                       /\ round' = round + 1
                       /\ dpc' = "loop"
                       /\ UNCHANGED dlgResult
    /\ UNCHANGED <<round_limit, user_msg, rp, dlgOut, roundsStarted,
                   firstSentinel, termReported, user_info, agentCalls>>
    /\ UNCHANGED nonDlgVars

DialogNext ==
    \/ DlgStart
    \/ DlgLoop
    \/ DlgYield
    \/ DlgAgentRaise
    \/ UserTurn
    \/ AssistantTurn
    \/ RoundEnd

DialogSpec == DialogInit /\ [][DialogNext]_vars

(* ============ StreamChatAgent._handle_stream_response ================== *)
\* a choice of a chunk, as far as the handler looks at it: its index, whether
\* delta.content is not None, and whether finish_reason is set
Choices == [content : BOOLEAN, finish_reason : BOOLEAN]

\* the lists chunk.choices tried; a usage-only chunk has none
ChoiceLists == SeqsUpTo(Choices, MaxChoices)

\* the message yielded for one choice: none when delta.content is None, else
\* Start while first_stream, else End when finish_reason is set, else Chunk
StreamMessage(first, choice) ==
    IF ~choice.content THEN <<>>
    ELSE IF first THEN <<"Start">>
    ELSE IF choice.finish_reason THEN <<"End">>
    ELSE <<"Chunk">>

\* delta.content of the choice at position i of the n-th chunk, when it is
\* not None: every delta carries a text of its own
DeltaContent(n, i) == <<n, i>>

RECURSIVE ChunkContents(_, _, _)
\* the non-null delta contents of the choices of the n-th chunk from position
\* i on, in order
ChunkContents(choices, n, i) ==
    IF i > Len(choices) THEN <<>>
    ELSE (IF choices[i].content THEN <<DeltaContent(n, i)>> ELSE <<>>)
         \o ChunkContents(choices, n, i + 1)

\* payload=delta.content of the message yielded for one choice, if any
Payload(n, i, choice) ==
    IF choice.content THEN <<DeltaContent(n, i)>> ELSE <<>>

StreamInit ==
    /\ ExecIdle
    /\ OrchIdle
    /\ DlgIdle
    /\ StmIdle
    /\ RepIdle
    /\ AgtIdle
    /\ LifIdle
    /\ QwIdle
    /\ SvcIdle
    /\ StepIdle
    /\ ShrIdle
    /\ RolIdle

\* first next(): the dictionaries are created, stream_id is drawn,
\* first_stream = True
StreamStart ==
    /\ spc = "idle"
    /\ first_stream' = TRUE
    /\ content_dict' = {}
    /\ finish_reasons_dict' = {}
    /\ spc' = "next"
    /\ backend_runs' = backend_runs + 1
    /\ UNCHANGED <<chunk, choiceIdx, chunksRead, emitted, payloads, arrived>>
    /\ UNCHANGED nonStmVars

\* `for chunk in response`: the stream gives another chunk
NextChunk ==
    /\ spc = "next"
    /\ chunksRead < MaxChunks
    /\ \E c \in ChoiceLists :
        /\ chunk' = c
        /\ arrived' = arrived \o ChunkContents(c, chunksRead + 1, 1)
    /\ chunksRead' = chunksRead + 1
    /\ choiceIdx' = 1
    /\ spc' = "choices"
    /\ UNCHANGED <<first_stream, content_dict, finish_reasons_dict, emitted,
                   payloads, backend_runs>>
    /\ UNCHANGED nonStmVars

\* `for choice in chunk.choices`: one choice is handled (choice.index is its
\* position) and its message, if any, yielded; _handle_output_messages reads
\* content_dict[index] when finish_reason is set, a KeyError when the choice
\* never had content
StreamChoice ==
    /\ spc = "choices"
    /\ choiceIdx <= Len(chunk)
    /\ content_dict' =
          IF chunk[choiceIdx].content
          THEN content_dict \cup {choiceIdx - 1}
          ELSE content_dict
    /\ finish_reasons_dict' =
          IF chunk[choiceIdx].finish_reason
          THEN finish_reasons_dict \cup {choiceIdx - 1}
          ELSE finish_reasons_dict
    /\ IF chunk[choiceIdx].finish_reason /\ (choiceIdx - 1) \notin content_dict'
       THEN /\ spc' = "raised"
            /\ UNCHANGED <<emitted, payloads, choiceIdx>>
       ELSE /\ emitted' = emitted \o StreamMessage(first_stream, chunk[choiceIdx])
            /\ payloads' = payloads \o Payload(chunksRead, choiceIdx, chunk[choiceIdx])
            /\ choiceIdx' = choiceIdx + 1
            /\ UNCHANGED spc
    /\ UNCHANGED <<chunk, chunksRead, first_stream, arrived, backend_runs>>
    /\ UNCHANGED nonStmVars

\* the choices of the chunk are exhausted: first_stream = False
ChunkEnd ==
    /\ spc = "choices"
    /\ choiceIdx > Len(chunk)
    /\ first_stream' = FALSE
    /\ spc' = "next"
    /\ UNCHANGED <<chunk, choiceIdx, chunksRead, content_dict,
                   finish_reasons_dict, emitted, payloads, arrived, backend_runs>>
    /\ UNCHANGED nonStmVars

\* the stream is exhausted: the ModelResponse is built and returned
StreamEnd ==
    /\ spc = "next"
    /\ spc' = "done"
    /\ UNCHANGED <<chunk, choiceIdx, chunksRead, first_stream, content_dict,
                   finish_reasons_dict, emitted, payloads, arrived, backend_runs>>
    /\ UNCHANGED nonStmVars

StreamNext ==
    \/ StreamStart
    \/ NextChunk
    \/ StreamChoice
    \/ ChunkEnd
    \/ StreamEnd

StreamSpec == StreamInit /\ [][StreamNext]_vars

(* ================= Reporter: citation merge and assembly =============== *)
\* texts are token sequences: brackets and parentheses are tokens of their
\* own, a key, a URL or a word is one token
LB == "["
RB == "]"
LP == "("
RP == ")"
SupOpen == "<sup>"
SupClose == "</sup>"
\* the heading line of the reference section (a fixed non-ASCII title)
RefHeader == "## <references>  "

\* citation keys tried: a letter, and a numeral that is also a global index
CitKeys == {"A", "1"}

CitUrls == {"u1", "u2"}

\* "[key]t(url)"
CiteLine(key, url) == <<LB, key, RB, "t", LP, url, RP>>

\* "[key]t": a citation line without a URL in parentheses
NoUrlLine(key) == <<LB, key, RB, "t">>

\* the line "[citation]" that opens a block
CitationTag == <<LB, "citation", RB>>

\* a line without any '['
JunkLine == <<"t">>

\* a line whose first ']' comes before its first '['
BrokenLine == <<RB, LB, "A", RB>>

\* the lines of citation blocks tried
CitLineSet ==
    {CiteLine(key, url) : key \in CitKeys, url \in CitUrls}
        \cup {NoUrlLine(key) : key \in CitKeys}
        \cup {CitationTag, JunkLine, BrokenLine}

\* "[key]"
Placeholder(key) == <<LB, key, RB>>

RECURSIVE BodiesOf(_)
\* body texts of n items, each a placeholder or a word
BodiesOf(n) ==
    IF n = 0 THEN {<<>>}
    ELSE {b \o item : b \in BodiesOf(n - 1),
                      item \in {Placeholder(key) : key \in CitKeys} \cup {<<"x">>}}

Bodies == UNION {BodiesOf(n) : n \in 0..MaxBodyItems}

IndexError == [kind |-> "IndexError"]

ValueError == [kind |-> "ValueError"]

\* line.split(']')[0].split('[')[1]
KeyParse(line) ==
    LET i == FirstIndex(line, RB, 1)
        p == IF i = 0 THEN line ELSE SubSeq(line, 1, i - 1)
        j == FirstIndex(p, LB, 1)
        a == SubSeq(p, j + 1, Len(p))
        m == FirstIndex(a, LB, 1)
    IN IF j = 0
       THEN [raised |-> TRUE, value |-> IndexError]
       ELSE [raised |-> FALSE,
             value |-> IF m = 0 THEN a ELSE SubSeq(a, 1, m - 1)]

\* _get_url_cite_content: the line after "[key]", and the text of its first
\* parenthesis ("" when there is none)
GetUrlCiteContent(line, citation_key) ==
    LET cut_line == SubSeq(line, Len(citation_key) + 3, Len(line))
        i == FirstIndex(cut_line, LP, 1)
        j == IF i = 0 THEN 0 ELSE FirstIndex(cut_line, RP, i + 1)
    IN [url |-> IF i = 0 \/ j = 0 THEN <<>> ELSE SubSeq(cut_line, i + 1, j - 1),
        cut_line |-> cut_line]

\* position of key in an insertion-ordered dict (0: absent)
DictPos(d, key) ==
    IF \E i \in 1..Len(d) : d[i].key = key
    THEN CHOOSE i \in 1..Len(d) : d[i].key = key
    ELSE 0

\* d[key] = val: a present key keeps its place
DictSet(d, key, val) ==
    IF DictPos(d, key) = 0
    THEN Append(d, [key |-> key, val |-> val])
    ELSE [d EXCEPT ![DictPos(d, key)].val = val]

\* the line is passed over: a block tag, an empty line, a line without '['
SkippedLine(line) ==
    \/ line = CitationTag
    \/ line = <<>>
    \/ ~Contains(line, LB)

\* body of the loop over the lines of _get_citation_dicts, on the state
\* st = [dict, map, count]
ScanOneLine(st, rawline) ==
    LET line == Strip(rawline)
        parsed == KeyParse(line)
        cite == GetUrlCiteContent(line, parsed.value)
        dict2 == DictSet(st.dict, parsed.value, line)
    IN IF SkippedLine(line) THEN [raised |-> FALSE, st |-> st]
       ELSE IF parsed.raised THEN [raised |-> TRUE, st |-> st]
       ELSE IF cite.url = <<>> \/ DictPos(st.map, cite.url) # 0
       THEN [raised |-> FALSE, st |-> [st EXCEPT !.dict = dict2]]
       ELSE [raised |-> FALSE,
             st |-> [dict |-> dict2,
                     map |-> Append(st.map,
                                [key |-> cite.url,
                                 val |-> [index |-> ToString(st.count + 1),
                                          citation_content |-> cite.cut_line]]),
                     count |-> st.count + 1]]

RECURSIVE Replace(_, _, _)
\* text.replace(pat, rep), pat not empty
Replace(text, pat, rep) ==
    IF Len(text) < Len(pat) THEN text
    ELSE IF SubSeq(text, 1, Len(pat)) = pat
    THEN rep \o Replace(SubSeq(text, Len(pat) + 1, Len(text)), pat, rep)
    ELSE <<Head(text)>> \o Replace(Tail(text), pat, rep)

RECURSIVE ReplaceKeys(_, _, _, _)
\* the loop `for key in citation_dict` of _process_final_result from the
\* i-th key on (`key not in citation_dict` never holds inside the loop)
ReplaceKeys(text, dict, map, i) ==
    IF i > Len(dict) THEN text
    ELSE LET key == dict[i].key
             citation_val == dict[i].val
             url == GetUrlCiteContent(citation_val,
                                      KeyParse(citation_val).value).url
         IN IF DictPos(map, url) = 0
            THEN ReplaceKeys(text, dict, map, i + 1)
            ELSE ReplaceKeys(
                    Replace(text, <<LB>> \o key \o <<RB>>,
                            <<SupOpen, LB, map[DictPos(map, url)].val.index,
                              RB, SupClose>>),
                    dict, map, i + 1)

RECURSIVE ReferenceLines(_, _)
\* the loop over total_duplicate_map.items(): "[index]content  \n" each
ReferenceLines(map, i) ==
    IF i > Len(map) THEN <<>>
    ELSE <<LB, map[i].val.index, RB>> \o map[i].val.citation_content
            \o <<SP, SP, NL>> \o ReferenceLines(map, i + 1)

\* citation = the heading line + the reference lines
Citation(map) == <<RefHeader, NL>> \o ReferenceLines(map, 1)

\* _process_final_result
ProcessFinalResult(text, map, dict) ==
    ReplaceKeys(text, dict, map, 1) \o <<NL>> \o Citation(map)

ReportInit ==
    /\ ExecIdle
    /\ OrchIdle
    /\ DlgIdle
    /\ StmIdle
    /\ RepIdle
    /\ AgtIdle
    /\ LifIdle
    /\ QwIdle
    /\ SvcIdle
    /\ StepIdle
    /\ ShrIdle
    /\ RolIdle

\* _get_citation_dicts is entered: empty dictionaries, duplicate_count = 0
ScanStart ==
    /\ rpc = "idle"
    /\ citation_dict' = <<>>
    /\ total_duplicate_map' = <<>>
    /\ duplicate_count' = 0
    /\ rpc' = "scan"
    /\ UNCHANGED <<citLines, cleaned_text, assembled, repError>>
    /\ UNCHANGED nonRepVars

\* the next line of the citation blocks is handled
ScanLine ==
    /\ rpc = "scan"
    /\ Len(citLines) < MaxCitLines
    /\ \E line \in CitLineSet :
        LET r == ScanOneLine([dict |-> citation_dict, map |-> total_duplicate_map,
                              count |-> duplicate_count], line)
        IN /\ citLines' = Append(citLines, line)
           /\ citation_dict' = r.st.dict
           /\ total_duplicate_map' = r.st.map
           /\ duplicate_count' = r.st.count
           /\ IF r.raised
              THEN rpc' = "raised" /\ repError' = IndexError
              ELSE UNCHANGED <<rpc, repError>>
    /\ UNCHANGED <<cleaned_text, assembled>>
    /\ UNCHANGED nonRepVars

\* the blocks are exhausted: _process_final_result on the body text
Assemble ==
    /\ rpc = "scan"
    /\ \E body \in Bodies :
        /\ cleaned_text' = body
        /\ assembled' = Str(ProcessFinalResult(body, total_duplicate_map, citation_dict))
    /\ rpc' = "done"
    /\ UNCHANGED <<citLines, citation_dict, total_duplicate_map, duplicate_count,
                   repError>>
    /\ UNCHANGED nonRepVars

ReportNext ==
    \/ ScanStart
    \/ ScanLine
    \/ Assemble

ReportSpec == ReportInit /\ [][ReportNext]_vars

(* ============================ BaseAgent.run ============================ *)
\* subclasses run: the tests' MockAgent  (prompt "User prompt: {query}",
\* parse_output returns the response) and ExecuteSubTaskAgent (prompt from
\* the write template, parse_output returns response.msg.content)
AgentClasses == {"mock", "execute"}

Queries == {<<"q1">>, <<"q2">>}

\* build_user_prompt(query=query, context=context)
BuildUserPrompt(cls, query) ==
    IF cls = "mock" THEN <<"User prompt: ">> \o query
    ELSE <<"write template: ">> \o query

\* responses the underlying agent call may return
AgentResponses == {ChatAgentResponse(<<c>>, FALSE, <<>>) : c \in AssistantContents}

\* messages stream_step may yield
StreamItems == {[kind |-> "chunk", payload |-> c] : c \in {"c1", "c2"}}

\* parse_output(response)
ParseOutput(cls, response) ==
    IF cls = "mock" THEN response ELSE MsgOf(response).value

\* variant: the response itself is returned
RunOutput_Raw(cls, response) == response

\* output = self.parse_output(response) ... return output
RunOutput(cls, response) == ParseOutput(cls, response)

AgentInit ==
    /\ ExecIdle
    /\ OrchIdle
    /\ DlgIdle
    /\ StmIdle
    /\ RepIdle
    /\ agent_class \in AgentClasses
    /\ streaming \in BOOLEAN
    /\ run_query \in Queries
    /\ AgtRest
    /\ LifIdle
    /\ QwIdle
    /\ SvcIdle
    /\ StepIdle
    /\ ShrIdle
    /\ RolIdle

\* first next() on a streaming agent: the prompt is built and stream_step's
\* generator is created and entered by `yield from`
AgentStreamStart ==
    /\ apc = "idle"
    /\ streaming
    /\ stepCalls' = Append(stepCalls, BuildUserPrompt(agent_class, run_query))
    /\ apc' = "streaming"
    /\ UNCHANGED <<agent_class, streaming, run_query, streamYielded, agentOut,
                   agentResponse, agentOutput, postRunCalls>>
    /\ UNCHANGED nonAgtVars

\* stream_step yields a message: `yield from` hands it to the caller
AgentStreamYield ==
    /\ apc = "streaming"
    /\ Len(streamYielded) < MaxStreamMsgs
    /\ \E item \in StreamItems :
        /\ streamYielded' = Append(streamYielded, item)
        /\ agentOut' = Deliver(agentOut, item)
    /\ UNCHANGED <<agent_class, streaming, run_query, apc, stepCalls,
                   agentResponse, agentOutput, postRunCalls>>
    /\ UNCHANGED nonAgtVars

\* stream_step returns its final response: parse_output, post_run, return
AgentStreamReturn ==
    /\ apc = "streaming"
    /\ \E r \in AgentResponses :
        /\ agentResponse' = r
        /\ agentOutput' = RunOutput(agent_class, r)
    /\ postRunCalls' = postRunCalls + 1
    /\ apc' = "returned"
    /\ UNCHANGED <<agent_class, streaming, run_query, streamYielded, agentOut,
                   stepCalls>>
    /\ UNCHANGED nonAgtVars

\* first next() on a plain chat agent: the prompt is built, step is called
\* with it, parse_output, post_run, return (StopIteration)
AgentStep ==
    /\ apc = "idle"
    /\ ~streaming
    /\ stepCalls' = Append(stepCalls, BuildUserPrompt(agent_class, run_query))
    /\ \E r \in AgentResponses :
        /\ agentResponse' = r
        /\ agentOutput' = RunOutput(agent_class, r)
    /\ postRunCalls' = postRunCalls + 1
    /\ apc' = "returned"
    /\ UNCHANGED <<agent_class, streaming, run_query, streamYielded, agentOut>>
    /\ UNCHANGED nonAgtVars

\* the agent call (step, or stream_step at any point) raises
AgentCallRaise ==
    /\ \/ apc = "streaming"
       \/ apc = "idle" /\ ~streaming
    /\ stepCalls' = IF apc = "idle"
                    THEN Append(stepCalls, BuildUserPrompt(agent_class, run_query))
                    ELSE stepCalls
    /\ apc' = "raised"
    /\ UNCHANGED <<agent_class, streaming, run_query, streamYielded, agentOut,
                   agentResponse, agentOutput, postRunCalls>>
    /\ UNCHANGED nonAgtVars

AgentNext ==
    \/ AgentStreamStart
    \/ AgentStreamYield
    \/ AgentStreamReturn
    \/ AgentStep
    \/ AgentCallRaise

AgentSpec == AgentInit /\ [][AgentNext]_vars

(* ========================= ResearchExecution =========================== *)
\* steps and errors the calls are made with
LifeSteps == {ExecutionStep(Str(<<"q">>), None), ExecutionStep(Str(<<"ans">>), None)}

LifeErrors == {"e1", "e2"}

\* ResearchExecution(plan=...): a fresh object
LifecycleInit ==
    /\ ExecIdle
    /\ OrchIdle
    /\ DlgIdle
    /\ StmIdle
    /\ RepIdle
    /\ AgtIdle
    /\ execution = ResearchExecution(DlgPlan)
    /\ clock = 0
    /\ opsDone = 0
    /\ QwIdle
    /\ SvcIdle
    /\ StepIdle
    /\ ShrIdle
    /\ RolIdle

\* execution.add_step(step)
LifeAddStep ==
    /\ opsDone < MaxOps
    /\ \E step \in LifeSteps : execution' = AddStep(execution, step)
    /\ opsDone' = opsDone + 1
    /\ UNCHANGED clock
    /\ UNCHANGED nonLifVars

\* execution.fail(error)
LifeFail ==
    /\ opsDone < MaxOps
    /\ \E error \in LifeErrors : execution' = FailExecution(execution, error, clock)
    /\ opsDone' = opsDone + 1
    /\ UNCHANGED clock
    /\ UNCHANGED nonLifVars

\* time passes between two calls
LifeTick ==
    /\ clock < MaxClock
    /\ clock' = clock + 1
    /\ UNCHANGED <<execution, opsDone>>
    /\ UNCHANGED nonLifVars

LifecycleNext ==
    \/ LifeAddStep
    \/ LifeFail
    \/ LifeTick

LifecycleSpec == LifecycleInit /\ [][LifecycleNext]_vars

(* ============================ query_worker ============================= *)
\* what one requests.post may come to: a response with a status code, or a
\* requests.exceptions.RequestException (timeout, connection error)
PostOutcomes ==
    {[kind |-> "response", status_code |-> c, answer |-> a] :
        c \in {200, 429, 401}, a \in {"r1", "r2"}}
    \cup {[kind |-> "RequestException", of |-> x] : x \in {"Timeout", "ConnectionError"}}

DomainLists == {<<>>, <<"d1">>}

\* McpError(ErrorData(code=INTERNAL_ERROR, message=...))
McpError(message) == [kind |-> "McpError", message |-> message]

\* response.json() with included_domains / excluded_domains added when the
\* arguments are non-empty
ResponseDict(response, incl, excl) ==
    [answer |-> response.answer,
     included_domains |-> IF incl # <<>> THEN ListOf(incl) ELSE None,
     excluded_domains |-> IF excl # <<>> THEN ListOf(excl) ELSE None]

\* the status codes the try block raises McpError for
RaisesOnStatus(status_code) == status_code \in {429, 401}

SearchInit ==
    /\ ExecIdle
    /\ OrchIdle
    /\ DlgIdle
    /\ StmIdle
    /\ RepIdle
    /\ AgtIdle
    /\ LifIdle
    /\ include_domains \in DomainLists
    /\ exclude_domains \in DomainLists
    /\ QwRest
    /\ SvcIdle
    /\ StepIdle
    /\ ShrIdle
    /\ RolIdle

\* first next(): the request is built and the loop entered
QwStart ==
    /\ qpc = "idle"
    /\ retry' = 0
    /\ qpc' = "loop"
    /\ UNCHANGED <<include_domains, exclude_domains, attempts, response_dict, qwError>>
    /\ UNCHANGED nonQwVars

\* one pass of `for retry in range(3)`: sleep, post, then by outcome: McpError
\* straight out of the function for 429 and 401 (the except clause names
\* RequestException only), the next pass for a RequestException, else the
\* dictionary is built and the generator pauses at `yield`
QwAttempt ==
    /\ qpc = "loop"
    /\ retry < RetryRange
    /\ \E o \in PostOutcomes :
        /\ attempts' = Append(attempts, o)
        /\ IF o.kind = "RequestException"
           THEN /\ retry' = retry + 1
                /\ UNCHANGED <<qpc, response_dict, qwError>>
           ELSE IF RaisesOnStatus(o.status_code)
           THEN /\ qwError' = McpError(<<"Tavily API Error", o.status_code>>)
                /\ qpc' = "raised"
                /\ UNCHANGED <<retry, response_dict>>
           ELSE /\ response_dict' = ResponseDict(o, include_domains, exclude_domains)
                /\ qpc' = "yielded"
                /\ UNCHANGED <<retry, qwError>>
    /\ UNCHANGED <<include_domains, exclude_domains>>
    /\ UNCHANGED nonQwVars

\* next() after the bare yield: `return response_dict`
QwReturn ==
    /\ qpc = "yielded"
    /\ qpc' = "returned"
    /\ UNCHANGED <<retry, include_domains, exclude_domains, attempts,
                   response_dict, qwError>>
    /\ UNCHANGED nonQwVars

\* the range is exhausted: McpError "timeout"
QwExhausted ==
    /\ qpc = "loop"
    /\ retry >= RetryRange
    /\ qwError' = McpError(<<"Tavily search tool timeout">>)
    /\ qpc' = "raised"
    /\ UNCHANGED <<retry, include_domains, exclude_domains, attempts, response_dict>>
    /\ UNCHANGED nonQwVars

SearchNext ==
    \/ QwStart
    \/ QwAttempt
    \/ QwReturn
    \/ QwExhausted

SearchSpec == SearchInit /\ [][SearchNext]_vars

(* ======================== DeepResearchService ========================== *)
\* the thread that runs research / _run_orchestration, and the threads of an
\* Executor's ThreadPoolExecutor
Consumer == "consumer"
PoolThreads == {"Worker_0", "Worker_1"}

\* a CompleteMessage of the stream, with the thread that yielded it
CoreMessage(payload, thread) == [kind |-> "complete", payload |-> payload, thread |-> thread]
\* an OrchestratorStatusType of the stream (yielded by Orchestrator.run itself)
StatusItem(phase) == [kind |-> "status", phase |-> phase, thread |-> Consumer]
\* the final ReportItem built after StopIteration
FinalReport == [kind |-> "final_report", thread |-> Consumer]

Payloads == {"", "p"}

\* the phases Orchestrator.run may yield after phase p
NextPhases(p) ==
    CASE p = "pending" -> {"planning"}
      [] p = "planning" -> {"researching", "failed"}
      [] p = "researching" -> {"report_planning", "failed"}
      [] p = "report_planning" -> {"report_writing", "completed", "failed"}
      [] p = "report_writing" -> {"completed", "failed"}
      [] OTHER -> {}

\* the phases in which an Executor is running workloads on pool threads
PoolPhases == {"researching", "report_planning", "report_writing"}

\* _create_precess_item_by_orchestration_phase: the class of the item made
\* for a CompleteMessage in the phase ("none": no item)
ProcessItem(phase) ==
    CASE phase = "planning" -> "MessageItem"
      [] phase \in {"researching", "report_planning"} -> "ThoughtItem"
      [] phase = "report_writing" -> "ReportItem"
      [] OTHER -> "none"

\* _insert_message_by_orchestration_phase: does it call message_repo.create
InsertsMessage(phase, item) ==
    IF item.kind = "status" THEN item.phase = "researching"
    ELSE phase = "planning"

\* _insert_or_update_thought_and_report_process: the report_repo calls it
\* makes, given whether a message row (msg) and a report row (rep) are held
ReportCalls(phase, item, msg, rep) ==
    IF ~msg THEN <<>>
    ELSE IF item.kind = "status"
    THEN IF item.phase = "researching" /\ ~rep THEN <<"report.create">> ELSE <<>>
    ELSE IF phase \in {"researching", "report_planning"}
    THEN IF rep THEN <<"report.update">> ELSE <<>>
    ELSE IF phase \in {"report_writing", "completed"}
    THEN IF rep /\ (item.kind = "final_report" \/ ProcessItem(phase) = "ReportItem")
         THEN <<"report.update">> ELSE <<>>
    ELSE <<>>

\* does the loop body reach the two persistence helpers for the item
Persisted(phase, item) ==
    CASE item.kind = "status" -> TRUE
      [] item.kind = "complete" -> item.payload # "" /\ ProcessItem(phase) # "none"
      [] OTHER -> FALSE

\* variant: the thread that yielded the item into the stream
PersistingThread_Producer(item) == item.thread

\* the thread executing the body of _run_orchestration for an item: the one
\* that called next(orchestration_generator)
PersistingThread(item) == Consumer

\* a repository call as recorded: what, by which thread, for whose item
DbCall(op, item) == [op |-> op, thread |-> PersistingThread(item), by |-> item.thread]

\* one turn of the `while True` body for an item taken from the stream
Handle(item) ==
    LET phase == IF item.kind = "status" THEN item.phase
                 ELSE current_orchestration_phase
        ins   == Persisted(phase, item) /\ InsertsMessage(phase, item)
        msg   == message_db_item \/ ins
        rc    == IF Persisted(phase, item)
                 THEN ReportCalls(phase, item, msg, report_db_item) ELSE <<>>
        ops   == (IF ins THEN <<"message.create">> ELSE <<>>) \o rc
    IN  /\ current_orchestration_phase' = phase
        /\ message_db_item' = msg
        /\ report_db_item' = (report_db_item \/ rc = <<"report.create">>)
        /\ dbCalls' = dbCalls \o [i \in 1..Len(ops) |-> DbCall(ops[i], item)]
        /\ handled' = handled + 1

ServiceInit ==
    /\ ExecIdle
    /\ OrchIdle
    /\ DlgIdle
    /\ StmIdle
    /\ RepIdle
    /\ AgtIdle
    /\ LifIdle
    /\ QwIdle
    /\ SvcIdle
    /\ StepIdle
    /\ ShrIdle
    /\ RolIdle

\* research: the user's message is stored, the stream is created
SvcStart ==
    /\ svcPc = "idle"
    /\ svcPc' = "running"
    /\ dbCalls' = Append(dbCalls, DbCall("message.create", StatusItem("pending")))
    /\ UNCHANGED <<current_orchestration_phase, buffered, message_db_item,
                   report_db_item, handled>>
    /\ UNCHANGED nonSvcVars

\* next() gives a phase marker
SvcStatus ==
    /\ svcPc = "running"
    /\ handled < MaxItems
    /\ buffered = <<>>
    /\ \E p \in NextPhases(current_orchestration_phase) : Handle(StatusItem(p))
    /\ UNCHANGED <<svcPc, buffered>>
    /\ UNCHANGED nonSvcVars

\* next() gives a message yielded on the consumer's own thread (an agent run
\* inline, or workload 0 of an Executor call)
SvcLive ==
    /\ svcPc = "running"
    /\ handled < MaxItems
    /\ current_orchestration_phase \notin {"pending", "completed", "failed"}
    /\ \E c \in Payloads : Handle(CoreMessage(c, Consumer))
    /\ UNCHANGED <<svcPc, buffered>>
    /\ UNCHANGED nonSvcVars

\* _generator_worker on a pool thread: buffer.append(item), and nothing else
PoolBuffer(w) ==
    /\ svcPc = "running"
    /\ current_orchestration_phase \in PoolPhases
    /\ Len(buffered) + handled < MaxItems
    /\ \E c \in Payloads : buffered' = Append(buffered, CoreMessage(c, w))
    /\ UNCHANGED <<svcPc, current_orchestration_phase, message_db_item,
                   report_db_item, dbCalls, handled>>
    /\ UNCHANGED nonSvcVars

\* next() gives a buffered message, replayed by the Executor on the consumer
SvcReplay ==
    /\ svcPc = "running"
    /\ buffered # <<>>
    /\ Handle(Head(buffered))
    /\ buffered' = Tail(buffered)
    /\ UNCHANGED svcPc
    /\ UNCHANGED nonSvcVars

\* StopIteration: with a report in the result the final ReportItem is stored
SvcStop ==
    /\ svcPc = "running"
    /\ current_orchestration_phase \in {"planning", "completed", "failed"}
    /\ buffered = <<>>
    /\ svcPc' = "done"
    /\ \E has_report \in BOOLEAN :
        LET rc == IF has_report /\ current_orchestration_phase = "completed"
                  THEN ReportCalls(current_orchestration_phase, FinalReport,
                                   message_db_item, report_db_item)
                  ELSE <<>>
        IN dbCalls' = dbCalls \o [i \in 1..Len(rc) |-> DbCall(rc[i], FinalReport)]
    /\ UNCHANGED <<current_orchestration_phase, buffered, message_db_item,
                   report_db_item, handled>>
    /\ UNCHANGED nonSvcVars

ServiceNext ==
    \/ SvcStart
    \/ SvcStatus
    \/ SvcLive
    \/ \E w \in PoolThreads : PoolBuffer(w)
    \/ SvcReplay
    \/ SvcStop

ServiceSpec == ServiceInit /\ [][ServiceNext]_vars

(* ===================== StreamChatAgent.stream_step ===================== *)
\* the agents are built with system_message, model and tools only (base.py
\* lines 57-61): stop_event and max_iteration are None and there are no
\* external tools
ToolNames == {"search", "fetch"}

\* a ToolCallRequest: the tool, and which request of which response it is
ToolCallRequest(tool_name, response, index) ==
    [tool_name |-> tool_name, response |-> response, index |-> index]

\* the tool_call_requests a model response may carry
RequestLists(response) ==
    {s \in UNION {[1..n -> {ToolCallRequest(a, response, i) :
                               a \in ToolNames, i \in 1..MaxRequests}] :
                  n \in 0..MaxRequests} :
        \A i \in 1..Len(s) : s[i].index = i}

\* _execute_tool: the ToolCallingRecord of a request; nth is the number of
\* tool executions made in the turn up to and including this one
ExecuteTool(request, nth) ==
    [tool_name |-> request.tool_name, request |-> request, executed |-> nth]

ModelRequest(n) == [kind |-> "model_request", n |-> n]

\* CompleteMessage[ToolCallingRecord](payload=tool_call_record, ...)
CompleteRecord(record) == [kind |-> "complete", payload |-> record]

\* variant: the record is kept and not announced
ToolCallMessages_Silent(record) == <<>>

\* what the loop yields for an executed tool call
ToolCallMessages(record) == <<CompleteRecord(record)>>

\* _convert_to_chatagent_response / _step_terminate: info["tool_calls"] and
\* the termination reason
StepResponse(records, reason) ==
    [kind |-> "ChatAgentResponse", tool_calls |-> records, termination |-> reason]

StepInit ==
    /\ ExecIdle
    /\ OrchIdle
    /\ DlgIdle
    /\ StmIdle
    /\ RepIdle
    /\ AgtIdle
    /\ LifIdle
    /\ QwIdle
    /\ SvcIdle
    /\ StepIdle
    /\ ShrIdle
    /\ RolIdle

\* first next(): the input message is recorded, the loop is entered
StepStart ==
    /\ turnPc = "idle"
    /\ turnPc' = "top"
    /\ UNCHANGED <<iteration_count, tool_call_requests, reqPos, tool_call_records,
                   requested, stepLog, stepResponse>>
    /\ UNCHANGED nonStepVars

\* memory.get_context raises RuntimeError: _step_terminate
StepMaxTokens ==
    /\ turnPc = "top"
    /\ turnPc' = "returned"
    /\ stepResponse' = StepResponse(tool_call_records, Str(<<"max_tokens_exceeded">>))
    /\ UNCHANGED <<iteration_count, tool_call_requests, reqPos, tool_call_records,
                   requested, stepLog>>
    /\ UNCHANGED nonStepVars

\* the model cannot be run: ModelProcessingError leaves the turn
StepModelRaise ==
    /\ turnPc = "top"
    /\ turnPc' = "raised"
    /\ stepLog' = Append(stepLog, ModelRequest(iteration_count + 1))
    /\ UNCHANGED <<iteration_count, tool_call_requests, reqPos, tool_call_records,
                   requested, stepResponse>>
    /\ UNCHANGED nonStepVars

\* the model is asked and answers; without tool calls the loop is left and
\* the response converted, with tool calls the for loop begins
StepModelResponse ==
    /\ turnPc = "top"
    /\ \E reqs \in RequestLists(iteration_count + 1) :
        /\ reqs # <<>> => iteration_count < MaxToolResponses
        /\ iteration_count' = iteration_count + 1
        /\ stepLog' = Append(stepLog, ModelRequest(iteration_count + 1))
        /\ tool_call_requests' = reqs
        /\ requested' = requested \o reqs
        /\ reqPos' = 1
        /\ IF reqs = <<>>
           THEN /\ turnPc' = "returned"
                /\ stepResponse' = StepResponse(tool_call_records, None)
           ELSE /\ turnPc' = "tools"
                /\ UNCHANGED stepResponse
    /\ UNCHANGED tool_call_records
    /\ UNCHANGED nonStepVars

\* one pass of `for tool_call_request in tool_call_requests`, up to its
\* yield; after the last one the loop continues at its top
StepExecuteTool ==
    /\ turnPc = "tools"
    /\ reqPos <= Len(tool_call_requests)
    /\ LET record == ExecuteTool(tool_call_requests[reqPos], Len(tool_call_records) + 1)
       IN  /\ tool_call_records' = Append(tool_call_records, record)
           /\ stepLog' = stepLog \o ToolCallMessages(record)
    /\ reqPos' = reqPos + 1
    /\ turnPc' = IF reqPos = Len(tool_call_requests) THEN "top" ELSE "tools"
    /\ UNCHANGED <<iteration_count, tool_call_requests, requested, stepResponse>>
    /\ UNCHANGED nonStepVars

StepNext ==
    \/ StepStart
    \/ StepMaxTokens
    \/ StepModelRaise
    \/ StepModelResponse
    \/ StepExecuteTool

StepSpec == StepInit /\ [][StepNext]_vars

(* ======================= StreamRolePlaying.run ========================= *)
\* what an agent's run may return: msgs is None or a list of up to
\* MaxResponseMsgs message contents
ResponseMsgs(contents) ==
    {None} \cup {ListOf(m) : m \in SeqsUpTo(contents, MaxResponseMsgs)}

AgentResponse(msgs, terminated, info) ==
    [kind |-> "ChatAgentResponse", msgs |-> msgs, terminated |-> terminated,
     info |-> info]

\* `response.msgs is None`
MsgsMissing(response) == response.msgs = None

\* response.msg of a response whose msgs is a list
MsgOfResponse(response) ==
    MsgOf(ChatAgentResponse(response.msgs.items, response.terminated, response.info))

RolePlayInit ==
    /\ ExecIdle
    /\ OrchIdle
    /\ DlgIdle
    /\ StmIdle
    /\ RepIdle
    /\ AgtIdle
    /\ LifIdle
    /\ QwIdle
    /\ SvcIdle
    /\ StepIdle
    /\ ShrIdle
    /\ RolIdle

\* the user agent is run; `terminated or msgs is None or callback(.msg)`
\* decides, in this order, between handing back two empty responses and the
\* assistant's turn; .msg raises unless msgs holds one message
RunUser ==
    /\ runPc = "idle"
    /\ \E m \in ResponseMsgs(UserContents), t \in BOOLEAN, info \in ToolCallInfos("user", 1) :
        LET r == AgentResponse(m, t, info) IN
        /\ user_resp' = r
        /\ invokedRoles' = Append(invokedRoles, "user")
        /\ IF t \/ MsgsMissing(r)
           THEN /\ runReturn' = <<ChatAgentResponse(<<>>, FALSE, <<>>),
                                  ChatAgentResponse(<<>>, t, info)>>
                /\ runPc' = "returned"
                /\ UNCHANGED runError
           ELSE IF MsgOfResponse(r).raised
           THEN /\ runError' = MsgOfResponse(r).value
                /\ runPc' = "raised"
                /\ UNCHANGED runReturn
           ELSE IF ShouldTerminate(ExecutionStep(MsgOfResponse(r).value, None))
           THEN /\ runReturn' = <<ChatAgentResponse(<<>>, FALSE, <<>>),
                                  ChatAgentResponse(<<>>, t, info)>>
                /\ runPc' = "returned"
                /\ UNCHANGED runError
           ELSE /\ runPc' = "assistant"
                /\ UNCHANGED <<runReturn, runError>>
    /\ UNCHANGED assistant_resp
    /\ UNCHANGED nonRolVars

\* the assistant agent is run with the user's message
RunAssistant ==
    /\ runPc = "assistant"
    /\ \E m \in ResponseMsgs(AssistantContents), t \in BOOLEAN,
          info \in ToolCallInfos("assistant", 1) :
        LET r == AgentResponse(m, t, info)
            user_message == MsgOfResponse(user_resp).value
        IN
        /\ assistant_resp' = r
        /\ invokedRoles' = Append(invokedRoles, "assistant")
        /\ IF t \/ MsgsMissing(r)
           THEN /\ runReturn' = <<ChatAgentResponse(<<>>, t, info),
                                  ChatAgentResponse(<<user_message>>, FALSE,
                                                    user_resp.info)>>
                /\ runPc' = "returned"
                /\ UNCHANGED runError
           ELSE IF MsgOfResponse(r).raised
           THEN /\ runError' = MsgOfResponse(r).value
                /\ runPc' = "raised"
                /\ UNCHANGED runReturn
           ELSE /\ runReturn' = <<ChatAgentResponse(<<MsgOfResponse(r).value>>, t, info),
                                  ChatAgentResponse(<<user_message>>, FALSE,
                                                    user_resp.info)>>
                /\ runPc' = "returned"
                /\ UNCHANGED runError
    /\ UNCHANGED user_resp
    /\ UNCHANGED nonRolVars

RolePlayNext ==
    \/ RunUser
    \/ RunAssistant

RolePlaySpec == RolePlayInit /\ [][RolePlayNext]_vars

(* ======================= properties of the Executor ==================== *)
RECURSIVE ConcatProduced(_)
\* produced[0] \o produced[1] \o ... \o produced[n]
ConcatProduced(n) ==
    IF n < 0 THEN <<>> ELSE ConcatProduced(n - 1) \o produced[n]

Ended == pc \in {"returned", "raised"}
Given == 0..(nWorkloads - 1)
Failed == {w \in Given : outcome[w] = "err"}
AllOk == \A w \in Given : outcome[w] = "ok"
\* positions in doneOrder
DonePos(w) == CHOOSE i \in 1..Len(doneOrder) : doneOrder[i] = w
IsDone(w) == \E i \in 1..Len(doneOrder) : doneOrder[i] = w

\* C1: when every workload completes without error, the caller has observed
\* exactly w0's messages, then w1's, ... then wn's, each in production order;
\* and at no time has a message of a workload i >= 1 been delivered before
\* workload 0 completed.
C1_IndexGroupedOrder ==
    /\ (Ended /\ AllOk) =>
          /\ pc = "returned"
          /\ delivered = ConcatProduced(nWorkloads - 1)
    /\ (\E i \in 1..Len(delivered) : delivered[i][1] >= 1) => outcome[0] = "ok"

\* three workloads, every one yielded messages, workload 2 finished before
\* workload 1 and before workload 0, and the call returned
C1_Witness ==
    /\ pc = "returned"
    /\ nWorkloads = 3
    /\ \A w \in Given : Len(produced[w]) = MaxMsgs
    /\ DonePos(2) < DonePos(1)
    /\ DonePos(1) < DonePos(0)

\* C2: when the call returns, the list has one element per workload and its
\* i-th element is the value workload i returned, whatever the finishing order.
C2_ResultsInInputOrder ==
    pc = "returned" =>
        /\ callResult.kind = "list"
        /\ Len(callResult.items) = nWorkloads
        /\ \A w \in Given : callResult.items[w + 1] = Result(w)

\* three workloads returned, the pool finished them in reverse index order
C2_Witness ==
    /\ pc = "returned"
    /\ nWorkloads = 3
    /\ DonePos(2) < DonePos(1)

\* C3: when buffered workload kk > 0 raises and workloads 0..kk-1 succeed, an
\* ended call has delivered the messages of workloads 0..kk-1 and then every
\* message kk produced before raising, has raised kk's own error, and has
\* returned no list.
C3_PartialReplayThenRaise ==
    \A kk \in Given :
        (/\ kk > 0
         /\ Ended
         /\ outcome[kk] = "err"
         /\ \A j \in 0..(kk - 1) : outcome[j] = "ok")
        => /\ pc = "raised"
           /\ errors = <<Err(kk)>>
           /\ delivered = ConcatProduced(kk)
           /\ callResult = None

\* workload 2 raised after yielding, workloads 0 and 1 succeeded with messages
C3_Witness ==
    /\ pc = "raised"
    /\ nWorkloads = 3
    /\ outcome[0] = "ok" /\ outcome[1] = "ok" /\ outcome[2] = "err"
    /\ \A w \in Given : Len(produced[w]) = MaxMsgs

\* C4: once the failure of a buffered workload kk > 0 has been surfaced, no
\* workload with a higher index that had not started by then is ever invoked.
C4_LaterWorkloadsNeverInvoked ==
    [][(pc = "raised" /\ errors # <<>> /\ errors[1].kind = "error" /\ errors[1].of > 0)
         => \A j \in Given : j > errors[1].of => invoked'[j] = invoked[j]]_vars

\* C5: when workload 0 raises, every submission still pending when it is
\* cancelled stays cancelled and is never invoked; when the error reaches the
\* caller no submission is pending, nothing but workload 0's own messages was
\* delivered, the error is workload 0's and no list is returned.
C5_FirstFailureCancelsAll ==
    /\ [](\A w \in Workloads : fstate[w] = "CANCELLED" => ~invoked[w])
    /\ [][\A w \in Workloads : fstate[w] = "CANCELLED" =>
              (fstate'[w] = "CANCELLED" /\ invoked'[w] = invoked[w])]_vars
    /\ []((Ended /\ outcome[0] = "err") =>
              /\ pc = "raised"
              /\ errors = <<Err(0)>>
              /\ \A w \in Given : fstate[w] # "PENDING"
              /\ delivered = produced[0]
              /\ callResult = None)

\* workload 0 raised with two submissions outstanding: one was already running
\* and had buffered a message, the other was cancelled and its work item dropped
C5_Witness ==
    /\ pc = "raised"
    /\ nWorkloads = 3
    /\ outcome[0] = "err"
    /\ invoked[1] /\ Len(produced[1]) > 0
    /\ fstate[2] = "CANCELLED"
    /\ queue = <<>>

\* C6: with zero or one workload nothing is ever submitted to the pool; zero
\* workloads return an empty list and deliver nothing; one workload delivers
\* exactly what the worker function yielded and ends as it ended (its value as
\* a one-element list, or its error).
C6_DegenerateSizes ==
    nWorkloads <= 1 =>
        /\ futures = <<>> /\ queue = <<>>
        /\ \A w \in Workloads : fstate[w] = "NONE" /\ ~invoked[w]
        /\ delivered = produced[0]
        /\ (nWorkloads = 0 /\ pc # "idle") =>
              (pc = "returned" /\ callResult = ListOf(<<>>) /\ delivered = <<>>)
        /\ (nWorkloads = 1 /\ outcome[0] = "ok") =>
              (pc \in {"collect", "returned"} /\ ret = <<Result(0)>>)
        /\ (nWorkloads = 1 /\ pc = "returned") => callResult = ListOf(<<Result(0)>>)
        /\ (nWorkloads = 1 /\ Ended /\ outcome[0] = "err") =>
              (pc = "raised" /\ errors = <<Err(0)>> /\ callResult = None)

\* a single workload that yielded messages and returned
C6_Witness ==
    /\ nWorkloads = 1
    /\ pc = "returned"
    /\ Len(delivered) = MaxMsgs

\* C7: the caller receives at most one error; an ended call in which some
\* workload failed raised exactly one error, that of the first failed workload
\* met (workload 0, else the first in the collect scan); failures of other
\* workloads, earlier or later in time, are never surfaced.
C7_ExactlyOneError ==
    /\ Len(errors) <= 1
    /\ (Ended /\ Failed # {}) =>
          /\ pc = "raised"
          /\ Len(errors) = 1
          /\ errors[1].kind = "error"
          /\ errors[1].of \in Failed
          /\ \A j \in Given : j < errors[1].of => outcome[j] = "ok"
          /\ callResult = None
    /\ pc = "returned" => errors = <<>>

\* workloads 1 and 2 both failed, 2 failing first in time; workload 1's error
\* is the one raised
C7_Witness ==
    /\ pc = "raised"
    /\ nWorkloads = 3
    /\ outcome[1] = "err" /\ outcome[2] = "err"
    /\ DonePos(2) < DonePos(1)
    /\ errors = <<Err(1)>>

(* ===================== properties of the Orchestrator ================== *)
OrchMarkers == MarkersOf(out)

\* C8: when the Planner's result has status IncompleteInfo with non-empty
\* information_required, the run has ended by normal return, never by raising,
\* with require_user_interactive = true, require_user_feedback equal to that
\* text, report = None, and no phase marker after Planning.
C8_IncompleteInfoReturnsFeedback ==
    (/\ plan_result # None
     /\ plan_result.status = "incomplete_info"
     /\ plan_result.information_required # None
     /\ plan_result.information_required.s # <<>>)
    => /\ opc = "returned"
       /\ orchError = None
       /\ orchResult # None
       /\ orchResult.require_user_interactive = TRUE
       /\ orchResult.require_user_feedback = plan_result.information_required
       /\ orchResult.report = None
       /\ OrchMarkers = <<Marker("planning")>>
       /\ ~researcherCalled

\* the planner streamed a message, then asked "a b"; the run returned
C8_Witness ==
    /\ opc = "returned"
    /\ plan_result # None
    /\ plan_result.status = "incomplete_info"
    /\ plan_result.information_required = Str(<<"a", SP, "b">>)
    /\ Len(out) = 2

\* C9: when the Planner's result has status Draft, the run has ended by normal
\* return with require_user_interactive = true, report = None and plan_draft
\* the origin_plan texts of the search plans joined by newlines in plan order
\* (splitting plan_draft at the newlines gives back the origin_plan list), and
\* no phase marker after Planning: research is not started.
C9_DraftReturnsPlanText ==
    (plan_result # None /\ plan_result.status = "draft")
    => /\ opc = "returned"
       /\ orchError = None
       /\ orchResult # None
       /\ orchResult.require_user_interactive = TRUE
       /\ orchResult.report = None
       /\ plan_result.search_plans # None
       /\ orchResult.plan_draft # None
       /\ LET plans == plan_result.search_plans.items
              draft == orchResult.plan_draft.s
          IN IF plans = <<>>
             THEN draft = <<>>
             ELSE SplitLines(draft) = [i \in 1..Len(plans) |-> plans[i].origin_plan]
       /\ OrchMarkers = <<Marker("planning")>>
       /\ ~researcherCalled

\* a draft with two different search plans, returned as "a\nb"
C9_Witness ==
    /\ opc = "returned"
    /\ plan_result # None
    /\ plan_result.status = "draft"
    /\ Len(plan_result.search_plans.items) = 2
    /\ orchResult.plan_draft = Str(<<"a", NL, "b">>)

\* C10: the Researching marker is emitted and the Research Coordinator is
\* invoked only if the Planner's result for the run has status Finalized.
C10_ResearchOnlyWhenFinalized ==
    ((\E i \in 1..Len(out) : out[i] = Marker("researching")) \/ researcherCalled)
    => (plan_result # None /\ plan_result.status = "finalized")

\* C11: in every run that ended with a final report, the phase markers the
\* caller observed are exactly Planning, Researching, ReportPlanning,
\* ReportWriting, Completed, in that order.
C11_MarkerSequence ==
    (opc = "returned" /\ orchResult # None /\ orchResult.report # None)
    => OrchMarkers = <<Marker("planning"), Marker("researching"),
                       Marker("report_planning"), Marker("report_writing"),
                       Marker("completed")>>

\* C12: when an exception escapes a phase, the OrchestrationException raised
\* has as its stage the phase the orchestrator was in when the error occurred
\* (Planning, Researching, ReportPlanning or ReportWriting) and as its
\* original_error the exception of that phase.
C12_StageIsPhaseAtFailure ==
    [][(opc # "raised" /\ opc' = "raised")
       => /\ orchError'.stage = current_phase
          /\ orchError'.stage \in {"planning", "researching",
                                   "report_planning", "report_writing"}
          /\ orchError'.original_error \in
                {AgentError("planner"), AgentError("researcher"),
                 AgentError("reporter"), NoPlanException, TypeError}]_vars

\* C13: whenever a started run has ended (report returned, early return for
\* user input, or raise) end_time is recorded; start_time is recorded before
\* the first marker is yielded; before the run ends end_time is not recorded.
C13_EndTimeAlwaysRecorded ==
    /\ opc \in {"returned", "raised"} => (end_time /\ start_time)
    /\ out # <<>> => start_time
    /\ opc = "idle" => (~start_time /\ out = <<>>)
    /\ opc \in {"idle", "planning", "researching", "reporting"} => ~end_time

\* a run that raised out of the research phase, with end_time recorded
C13_Witness ==
    /\ opc = "raised"
    /\ orchError # None
    /\ orchError.original_error = AgentError("researcher")
    /\ end_time /\ start_time

\* C14: if a dialogue of the research phase or a writing task of the report
\* phase raised, the run raised: current_phase is Failed, no OrchestrationResult
\* (so no report) is returned, and after a research failure the report phase
\* was never entered: no ReportPlanning marker, no research_executions.
C14_FailedPhaseFailsRun ==
    /\ (orchError # None /\ orchError.original_error
            \in {AgentError("researcher"), AgentError("reporter")})
       => /\ opc = "raised"
          /\ current_phase = "failed"
          /\ orchResult = None
          /\ orchError.kind = "OrchestrationException"
    /\ (orchError # None /\ orchError.original_error = AgentError("researcher"))
       => /\ \A i \in 1..Len(out) :
                out[i] \notin {Marker("report_planning"), Marker("report_writing")}
          /\ research_executions = None
    /\ opc = "raised" => (orchResult = None /\ orchError # None)
    /\ (orchResult # None /\ orchResult.report # None) => orchError = None

\* a writing task raised after the report phase had yielded a message and
\* entered ReportWriting
C14_Witness ==
    /\ opc = "raised"
    /\ orchError # None
    /\ orchError.original_error = AgentError("reporter")
    /\ \E i \in 1..Len(out) : out[i] = Marker("report_writing")
    /\ \E i \in 1..Len(out) : out[i] = AgentMsg("reporter", 1)

(* ===================== properties of the dialogue loop ================= *)
DlgEnded == dpc \in {"returned", "raised"}

\* C15: with the default predicate, if the sentinel first appears in the user
\* turn of round r < round_limit (no agent call having reported termination),
\* the ended dialogue performed exactly r rounds and returned, without error,
\* a ResearchExecution with exactly 2r steps.
C15_SentinelStopsAfterRound ==
    (DlgEnded /\ firstSentinel > 0 /\ firstSentinel < round_limit /\ ~termReported)
    => /\ dpc = "returned"
       /\ dlgError = None
       /\ roundsStarted = firstSentinel
       /\ dlgResult # None
       /\ Len(dlgResult.steps) = 2 * firstSentinel

CallOf(who, r) ==
    CHOOSE c \in {agentCalls[i] : i \in 1..Len(agentCalls)} :
        c.role = who /\ c.round = r

\* the step a call's response is recorded as
StepOfCall(c) == ExecutionStep(c.content, ToolCallsOf(c.info))

\* the steps come in pairs, one pair per completed round: the round's user
\* turn, then its assistant turn, each with the tool calls of that turn
StepsPaired ==
    research_result # None =>
        LET steps == research_result.steps IN
        /\ Len(steps) % 2 = 0
        /\ 2 * round <= Len(steps) /\ Len(steps) <= 2 * roundsStarted
        /\ dpc = "returned" => Len(steps) = 2 * roundsStarted
        /\ \A i \in 1..(Len(steps) \div 2) :
              /\ steps[2 * i - 1] = StepOfCall(CallOf("user", i))
              /\ steps[2 * i] = StepOfCall(CallOf("assistant", i))

\* a step of the dialogue leaves the steps alone or appends two to them
StepsAppendOnly ==
    (research_result # None /\ research_result' # None) =>
        LET old == research_result.steps
            new == research_result'.steps
        IN \/ new = old
           \/ /\ Len(new) = Len(old) + 2
              /\ SubSeq(new, 1, Len(old)) = old

\* C27: the steps of a ResearchExecution are append-only and paired: every
\* completed round has contributed two consecutive steps, the user turn's
\* first and the assistant turn's second, each carrying the tool-call records
\* of its own turn, and no earlier step is removed, reordered or modified.
C27_StepsAppendOnlyAndPaired ==
    /\ []StepsPaired
    /\ [][StepsAppendOnly]_vars

\* two rounds were completed; the user turn of round 1 and the assistant
\* turn of round 2 called a tool, the other two turns did not
C27_Witness ==
    /\ dpc = "returned"
    /\ Len(dlgResult.steps) = 4
    /\ dlgResult.steps[1].tool_calls = ListOf(<<ToolCallingRecord("user", 1)>>)
    /\ dlgResult.steps[2].tool_calls = None
    /\ dlgResult.steps[3].tool_calls = None
    /\ dlgResult.steps[4].tool_calls = ListOf(<<ToolCallingRecord("assistant", 2)>>)

\* C28: the user-role agent is called in round 1 with the research question
\* combined with the sub-plan text and in every round r > 1 with the
\* assistant-role agent's reply of round r-1; the assistant-role agent is
\* called with the text of its round's user turn.
C28_QueriesChainTheTurns ==
    \A i \in 1..Len(agentCalls) :
        LET c == agentCalls[i] IN
        /\ (c.role = "user" /\ c.round = 1) =>
              c.query = RolePlayingUserPrompt(DlgQuery, DlgPlan.origin_plan)
        /\ (c.role = "user" /\ c.round > 1) =>
              c.query = CallOf("assistant", c.round - 1).content
        /\ c.role = "assistant" =>
              c.query = CallOf("user", c.round).content

\* what the calls do receive: the user-role agent the bare question in
\* round 1 and its own previous turn afterwards, the assistant-role agent
\* the text of its round's user turn
QueriesAsCalled ==
    \A i \in 1..Len(agentCalls) :
        LET c == agentCalls[i] IN
        /\ (c.role = "user" /\ c.round = 1) => c.query = DlgQuery
        /\ (c.role = "user" /\ c.round > 1) =>
              c.query = CallOf("user", c.round - 1).content
        /\ c.role = "assistant" =>
              c.query = CallOf("user", c.round).content

\* C29: when a user-role or assistant-role agent call reports terminated,
\* the dialogue ends without raising, in the round of that call, and returns
\* the ResearchExecution with the steps appended up to that point.
C29_TerminatedStopsQuietly ==
    termReported =>
        /\ roundsStarted = agentCalls[Len(agentCalls)].round
        /\ agentCalls[Len(agentCalls)].terminated
        /\ DlgEnded =>
              /\ dpc = "returned"
              /\ dlgError = None
              /\ dlgResult = research_result

(* ================ properties of the ResearchExecution ================== *)
\* the status is Pending exactly while there is no step, and end_time is
\* null exactly until the status is Failed
LifeStatusMatchesSteps ==
    /\ (execution.current_status = "pending") <=> (execution.steps = <<>>)
    /\ (execution.end_time = None) <=> (execution.current_status # "failed")

\* an add_step on a Pending object makes it Running, and Failed is kept
LifeTransitions ==
    /\ (execution.current_status = "pending"
          /\ execution'.steps # execution.steps
          /\ execution'.end_time = None)
       => execution'.current_status = "running"
    /\ execution.current_status = "failed" => execution'.current_status = "failed"

\* end_time, once assigned, keeps its value
LifeEndTimeAssignedOnce ==
    execution.end_time # None => execution'.end_time = execution.end_time

\* C30: over any sequence of add_step and fail calls the status is Pending
\* exactly while no step has been appended, the first add_step makes a
\* Pending object Running, Failed is never left, and end_time is null until
\* the object fails and is assigned once: a repeated fail leaves it as it is.
C30_LifecycleOneWay ==
    /\ []LifeStatusMatchesSteps
    /\ [][LifeTransitions]_vars
    /\ [][LifeEndTimeAssignedOnce]_vars

\* all of it but the single assignment of end_time
LifecycleButEndTime ==
    /\ []LifeStatusMatchesSteps
    /\ [][LifeTransitions]_vars

(* ===================== properties of the stream handler ================ *)
\* C17: the messages carrying the stream_id of a streamed response come in
\* the order Start, zero or more Chunk, then exactly one End (or Error): no
\* message precedes the Start, none follows the End, and a finished response
\* that produced messages has both.
C17_StartChunksEnd ==
    /\ \A i \in 1..Len(emitted) :
          /\ (emitted[i] = "Start") <=> (i = 1)
          /\ emitted[i] \in {"End", "Error"} => i = Len(emitted)
    /\ (spc \in {"done", "raised"} /\ emitted # <<>>)
       => /\ Len(emitted) >= 2
          /\ emitted[Len(emitted)] \in {"End", "Error"}

\* C25: once stream_step is over for a streamed response without tool calls,
\* the payloads of the messages it yielded, concatenated in order, are the
\* non-null delta contents of the response's chunks in arrival order, and the
\* model backend was run exactly once.
C25_PayloadsAreTheContents ==
    spc \in {"done", "raised"} =>
        /\ payloads = arrived
        /\ backend_runs = 1

\* what was yielded is at every moment a prefix of what arrived, and a
\* response handled to its end lost nothing
PayloadsPrefixOfContents ==
    /\ Len(payloads) <= Len(arrived)
    /\ payloads = SubSeq(arrived, 1, Len(payloads))
    /\ spc = "done" => payloads = arrived
    /\ spc # "idle" => backend_runs = 1

(* ===================== properties of the report assembly =============== *)
\* the URL a scanned line cites (empty: the line is skipped or has none)
UrlOfLine(line) ==
    IF SkippedLine(Strip(line)) \/ KeyParse(Strip(line)).raised THEN <<>>
    ELSE GetUrlCiteContent(Strip(line), KeyParse(Strip(line)).value).url

RECURSIVE FirstSeen(_, _)
\* the distinct URLs of the lines from the i-th on, in order of first sight
FirstSeen(lines, seen) ==
    IF lines = <<>> THEN seen
    ELSE LET u == UrlOfLine(Head(lines))
         IN FirstSeen(Tail(lines),
                      IF u = <<>> \/ (\E i \in 1..Len(seen) : seen[i] = u)
                      THEN seen ELSE Append(seen, u))

\* the URLs the scanned lines give for a key
KeyUrls(key) ==
    {UrlOfLine(citLines[i]) : i \in {j \in 1..Len(citLines) :
        /\ ~SkippedLine(citLines[j])
        /\ ~KeyParse(citLines[j]).raised
        /\ KeyParse(citLines[j]).value = <<key>>}}

\* the keys whose placeholder occurs in the text
BodyKeys(text) ==
    {key \in CitKeys :
        \E i \in 1..(Len(text) - 2) : SubSeq(text, i, i + 2) = Placeholder(key)}

\* global index of a URL: its place in the order of first sight
GlobalIndex(u) ==
    LET urls == FirstSeen(citLines, <<>>)
    IN CHOOSE i \in 1..Len(urls) : urls[i] = u

RECURSIVE ExpectedBody(_)
\* the body with every placeholder replaced by the superscript of the global
\* index of its key's URL
ExpectedBody(text) ==
    IF text = <<>> THEN <<>>
    ELSE IF Len(text) >= 3 /\ text[1] = LB /\ text[3] = RB /\ text[2] \in CitKeys
    THEN (LET u == CHOOSE x \in KeyUrls(text[2]) : TRUE
          IN <<SupOpen, LB, ToString(GlobalIndex(u)), RB, SupClose>>)
            \o ExpectedBody(SubSeq(text, 4, Len(text)))
    ELSE <<Head(text)>> \o ExpectedBody(Tail(text))

RECURSIVE ExpectedReferences(_, _)
\* one reference line per distinct URL, in index order
ExpectedReferences(urls, i) ==
    IF i > Len(urls) THEN <<>>
    ELSE <<LB, ToString(i), RB, "t", LP>> \o urls[i] \o <<RP, SP, SP, NL>>
            \o ExpectedReferences(urls, i + 1)

RECURSIVE GetCitationDicts(_, _)
\* _get_citation_dicts on lines that do not raise: the scan folded over them
GetCitationDicts(lines, st) ==
    IF lines = <<>> THEN st
    ELSE GetCitationDicts(Tail(lines), ScanOneLine(st, Head(lines)).st)

\* C18: distinct URLs get the global indices 1, 2, ... in the order they are
\* first met in the scanned lines and a URL met again reuses its index; every
\* [key] placeholder of the body (its key citing one URL) is replaced by the
\* superscript of that URL's index; the reference section lists each distinct
\* URL once, in index order; assembling the same input again gives the same
\* output.
C18_CitationsNumberedByFirstSeenUrl ==
    rpc = "done" =>
        LET urls == FirstSeen(citLines, <<>>)
            again == GetCitationDicts(citLines, [dict |-> <<>>, map |-> <<>>,
                                                 count |-> 0])
        IN /\ Len(total_duplicate_map) = Len(urls)
           /\ \A i \in 1..Len(urls) :
                /\ total_duplicate_map[i].key = urls[i]
                /\ total_duplicate_map[i].val.index = ToString(i)
           /\ (\A key \in BodyKeys(cleaned_text) :
                 Cardinality(KeyUrls(key)) = 1 /\ <<>> \notin KeyUrls(key))
              => assembled.s = ExpectedBody(cleaned_text) \o <<NL, RefHeader, NL>>
                                 \o ExpectedReferences(urls, 1)
           /\ assembled = Str(ProcessFinalResult(cleaned_text, again.map, again.dict))

\* C19: a [key] placeholder of the body whose key has no entry in the citation
\* dictionary makes the assembly fail with an error; a line of a citation
\* block that cannot be parsed is skipped at extraction, which never fails.
C19_UnknownKeyFailsLoudly ==
    /\ (rpc \in {"done", "raised"}
          /\ \E key \in BodyKeys(cleaned_text) : DictPos(citation_dict, <<key>>) = 0)
       => (rpc = "raised" /\ repError = ValueError /\ assembled = None)
    /\ repError # IndexError

(* ============ Researcher.run over the Executor call ==================== *)
\* Researcher.run hands list(enumerate(plan_result.search_plans)) to the
\* Executor: workload w is (w, search_plans[w])
SearchPlanOf(w) == [origin_plan |-> <<ToString(w)>>]

\* search_info_worker: the dialogue's ResearchExecution for the search plan
\* (`or []` never applies: a ResearchExecution is truthy)
SearchInfoWorker(i, search_step) == ResearchExecution(search_step)

\* the value a workload's generator returned, Result(w), as a ResearchExecution
AllContent(items) ==
    [i \in 1..Len(items) |-> SearchInfoWorker(items[i].of, SearchPlanOf(items[i].of))]

\* the list comes back last element first
Flattened_Reversed(all_content) ==
    [i \in 1..Len(all_content) |-> all_content[Len(all_content) + 1 - i]]

\* `for i, content in enumerate(all_content): flattened.append(content)`
Flattened(all_content) ==
    [i \in 1..Len(all_content) |-> all_content[i]]

\* C20: when all dialogues of the search plans p0..pn succeeded, Researcher.run
\* returns exactly n+1 ResearchExecutions, the i-th with plan = pi, in whatever
\* order the parallel dialogues ended.
C20_OneExecutionPerPlanInOrder ==
    pc = "returned" =>
        LET executions == Flattened(AllContent(callResult.items))
        IN /\ Len(executions) = nWorkloads
           /\ \A w \in Given : executions[w + 1].plan = SearchPlanOf(w)

\* three search plans whose dialogues ended in the order 2, 1, 0
C20_Witness ==
    /\ pc = "returned"
    /\ nWorkloads = 3
    /\ doneOrder = <<2, 1, 0>>

DeliveredOf(w) == SelectSeq(delivered, LAMBDA m : m[1] = w)

\* C22: a workload running on a pool thread is never interrupted: its future
\* leaves RUNNING only by finishing, also after the call has failed; and when
\* the call has failed, no message and no result of a workload behind the
\* failed one has been delivered to the caller.
C22_RunningNeverInterrupted ==
    /\ [][\A w \in Workloads :
            fstate[w] = "RUNNING" => fstate'[w] \in {"RUNNING", "FINISHED"}]_vars
    /\ [](pc = "raised" =>
            \A w \in Given :
                w > errors[1].of =>
                    /\ DeliveredOf(w) = <<>>
                    /\ \A i \in 1..Len(ret) : ret[i] # Result(w)
                    /\ callResult = None)

\* workload 0 failed while workload 1 was running; the call raised, and
\* workload 1 went on to yield all its messages and to return
C22_Witness ==
    /\ pc = "raised"
    /\ errors = <<Err(0)>>
    /\ outcome[1] = "ok"
    /\ fstate[1] = "FINISHED"
    /\ Len(produced[1]) = MaxMsgs
    /\ DonePos(0) < DonePos(1)
    /\ DeliveredOf(1) = <<>>

(* ============ messages passing through Orchestrator.run ================ *)
\* C23: the messages the caller received from Orchestrator.run are exactly
\* the items the Planner, the Research Coordinator and the Report Coordinator
\* yielded, without those carrying the write-phase tag: unmodified, once each,
\* in the order produced; everything else the caller received is a marker.
C23_MessagesPassThrough ==
    /\ SelectSeq(out, LAMBDA x : x.kind = "message")
          = SelectSeq(agentYielded, LAMBDA x : x # TaggedItem)
    /\ \A i \in 1..Len(out) : out[i].kind \in {"message", "status"}
    /\ Len(SelectSeq(out, LAMBDA x : x = Marker("report_writing")))
          = Len(SelectSeq(agentYielded, LAMBDA x : x = TaggedItem))

\* every phase yielded two messages, the reporter also a tagged item between
\* its two, and the run returned
C23_Witness ==
    /\ opc = "returned"
    /\ MsgCount("planner") = 2 /\ MsgCount("researcher") = 2
    /\ \E i \in 1..(Len(out) - 2) :
          /\ out[i] = AgentMsg("reporter", 1)
          /\ out[i + 1] = Marker("report_writing")
          /\ out[i + 2] = AgentMsg("reporter", 2)

(* ============== properties of the executor's two drivers =============== *)
\* once workload 0 has produced anything the pool holds all the others, and
\* workload 0 itself is never a pool work item
SubmittedBeforeFirst ==
    /\ (produced[0] # <<>> \/ outcome[0] # "none") =>
          /\ Len(futures) = nWorkloads - 1
          /\ \A w \in 1..(nWorkloads - 1) : fstate[w] # "NONE"
    /\ fstate[0] = "NONE"
    /\ ~invoked[0]

\* a step of workload 0 is taken inside the caller's next(), and a message of
\* workload 0 pauses the call
FirstDrivenByCaller ==
    /\ (produced'[0] # produced[0] \/ outcome'[0] # outcome[0]) =>
          (~suspended /\ pc = "first")
    /\ (produced'[0] # produced[0]) => suspended'

\* C26: in a generator-mode call every workload 1..N-1 has been submitted
\* to the pool before workload 0 produces anything; workload 0 is never
\* handed to the pool, takes a step only while the caller is inside next()
\* and pauses the call with every message; and each submitted workload comes
\* to its end on a pool thread (or is cancelled unstarted) whether or not the
\* caller ever calls next() again.
C26_PoolRunsAheadCallerDrivesFirst ==
    /\ []SubmittedBeforeFirst
    /\ [][FirstDrivenByCaller]_vars
    /\ \A w \in Workloads :
          (fstate[w] = "PENDING") ~> (fstate[w] \in {"FINISHED", "CANCELLED"})

\* two pooled workloads have produced all their messages and ended while the
\* caller still waits at workload 0's first message, having pulled once
C26_Witness ==
    /\ nWorkloads = 3
    /\ pc = "first" /\ suspended
    /\ delivered = <<Msg(0, 1)>>
    /\ \A w \in 1..2 : fstate[w] = "FINISHED" /\ Len(produced[w]) = MaxMsgs

(* ===================== properties of BaseAgent.run ===================== *)
\* C24: run is a generator in both modes: nothing is called before it is
\* advanced. Streaming: the caller receives exactly the messages stream_step
\* yielded, in order and unmodified, and run returns parse_output of
\* stream_step's final response. Non-streaming: no message is yielded, step
\* is called exactly once, with the prompt build_user_prompt gives, and run
\* returns parse_output of its response.
C24_RunIsTransparentGenerator ==
    /\ apc = "idle" => (stepCalls = <<>> /\ agentOut = <<>> /\ agentOutput = None)
    /\ agentOut = streamYielded
    /\ ~streaming => agentOut = <<>>
    /\ Len(stepCalls) <= 1
    /\ apc = "returned" =>
          /\ stepCalls = <<BuildUserPrompt(agent_class, run_query)>>
          /\ agentResponse # None
          /\ agentOutput = ParseOutput(agent_class, agentResponse)
          /\ postRunCalls = 1
    /\ apc # "returned" => agentOutput = None

\* a streaming ExecuteSubTaskAgent passed two different chunks on and
\* returned the content of the final response
C24_Witness ==
    /\ apc = "returned"
    /\ streaming
    /\ agent_class = "execute"
    /\ Len(agentOut) = 2 /\ agentOut[1] # agentOut[2]
    /\ agentOutput = Str(<<"ans">>)

\* a plain MockAgent called step once with "User prompt: q1"
C24_WitnessStep == 
    /\ apc = "returned"
    /\ ~streaming
    /\ stepCalls = <<(<<"User prompt: ", "q1">>)>>

(* ================ properties of the phase machine ====================== *)
\* the edges the phase may take within one run
PhaseEdges ==
    {<<"pending", "planning">>, <<"planning", "researching">>,
     <<"researching", "report_planning">>,
     <<"report_planning", "report_writing">>,
     <<"report_writing", "completed">>}

\* every message an agent has handed over follows the marker of the phase
\* that agent works in
MarkerBeforeCoordinator ==
    \A i \in 1..Len(out) :
        out[i].kind = "message" =>
            \E j \in 1..(i - 1) :
                out[j] = Marker(CASE out[i].of = "planner" -> "planning"
                                  [] out[i].of = "researcher" -> "researching"
                                  [] OTHER -> "report_planning")

\* C31: within one run current_phase changes only along Pending, Planning,
\* Researching, ReportPlanning, ReportWriting, Completed, or from any state
\* to Failed: no phase is skipped or re-entered, Completed is reached only
\* from ReportWriting, and the marker of a phase is emitted before the
\* coordinator of that phase is invoked.
C31_PhasesInOrder ==
    /\ [][current_phase' # current_phase =>
             \/ <<current_phase, current_phase'>> \in PhaseEdges
             \/ current_phase' = "failed"]_vars
    /\ []MarkerBeforeCoordinator
    /\ [](researcherCalled =>
             \E j \in 1..Len(out) : out[j] = Marker("researching"))

\* what holds of the phases: they never go backwards, and the markers lead
PhasesNeverBackwards ==
    /\ [][current_phase' # current_phase =>
             \/ <<current_phase, current_phase'>> \in
                   PhaseEdges \cup {<<"report_planning", "completed">>}
             \/ current_phase' = "failed"]_vars
    /\ []MarkerBeforeCoordinator

(* ================== properties of the Planner's memory ================= *)
\* the result the Planner's next turn gives when the model answers with the
\* finalize command
NextTurnOnFinalize == DefaultPlanParser(<<START>>, current_search_plan)

\* C32: after a Planner turn that returned PlanResult R the Planner's current
\* plan is R, so that a following turn answered with the finalize command
\* returns a Finalized result carrying R's search plans in their order.
C32_PlannerRetainsLatestResult ==
    plan_result # None =>
        /\ current_search_plan = plan_result
        /\ ~NextTurnOnFinalize.raised
        /\ NextTurnOnFinalize.value.status = "finalized"
        /\ NextTurnOnFinalize.value.search_plans = plan_result.search_plans

\* what the Planner does keep: the plan it was constructed with
PlannerKeepsInitialPlan ==
    [][current_search_plan' = current_search_plan]_vars

\* a PlanResult is missing, or carries no search plan
CarriesNoPlans(pr) ==
    \/ pr = None
    \/ pr.search_plans = None
    \/ pr.search_plans = ListOf(<<>>)

\* C33: when the model answers with the finalize command while no plan
\* exists (neither an earlier turn nor the history gave a PlanResult carrying
\* search plans) the parser raises NoPlanException, and no Finalized
\* PlanResult without search plans is ever returned.
C33_FinalizeWithoutPlanRaises ==
    /\ CarriesNoPlans(current_search_plan) =>
          /\ NextTurnOnFinalize.raised
          /\ NextTurnOnFinalize.value = NoPlanException
    /\ (plan_result # None /\ plan_result.status = "finalized") =>
          ~CarriesNoPlans(plan_result)

\* what the parser does: it raises exactly when the Planner holds no
\* PlanResult object at all
FinalizeRaisesOnlyOnNone ==
    NextTurnOnFinalize.raised <=> (current_search_plan = None)

(* =================== properties of the search worker =================== *)
\* a request that failed for a passing reason: rate limit, timeout, network
Transient(o) ==
    \/ o.kind = "RequestException"
    \/ o.kind = "response" /\ o.status_code = 429

\* C34: a transient failure (a 429 response, a timeout or network error) is
\* retried, with at most 3 requests in all; the worker returns the first
\* successful response, and raises a tool error only when all attempts have
\* failed, never returning normally after failure.
C34_TransientFailuresRetried ==
    /\ Len(attempts) <= 3
    /\ qpc = "raised" =>
          /\ qwError.kind = "McpError"
          /\ \/ Len(attempts) = 3
             \/ ~Transient(attempts[Len(attempts)])
    /\ qpc = "returned" =>
          /\ attempts[Len(attempts)].kind = "response"
          /\ attempts[Len(attempts)].status_code = 200
          /\ response_dict.answer = attempts[Len(attempts)].answer
          /\ \A i \in 1..(Len(attempts) - 1) : Transient(attempts[i])

\* what holds: timeouts and network errors are retried up to three requests,
\* and a 429 or 401 response ends the worker with McpError at once
OnlyRequestExceptionsRetried ==
    /\ Len(attempts) <= 3
    /\ \A i \in 1..(Len(attempts) - 1) : attempts[i].kind = "RequestException"
    /\ qpc = "raised" =>
          /\ qwError.kind = "McpError"
          /\ \/ Len(attempts) = 3 /\ attempts[3].kind = "RequestException"
             \/ /\ attempts[Len(attempts)].kind = "response"
                /\ attempts[Len(attempts)].status_code \in {429, 401}
    /\ qpc = "returned" =>
          /\ attempts[Len(attempts)].kind = "response"
          /\ attempts[Len(attempts)].status_code = 200
          /\ response_dict.answer = attempts[Len(attempts)].answer

Announced(record) ==
    Cardinality({i \in 1..Len(stepLog) : stepLog[i] = CompleteRecord(record)})

\* every tool call asked for so far has been executed, recorded, and
\* announced by one Complete message
AllToolCallsDone ==
    /\ Len(tool_call_records) = Len(requested)
    /\ \A i \in 1..Len(requested) :
          /\ tool_call_records[i].request = requested[i]
          /\ tool_call_records[i].tool_name = requested[i].tool_name
          /\ tool_call_records[i].executed = i
          /\ Announced(tool_call_records[i]) = 1

LowestFailed == CHOOSE w \in Failed : \A v \in Failed : w <= v

\* C37: in a generator-mode call in which more than one workload fails, the
\* error raised to the caller is that of the failing workload with the lowest
\* index, whatever the order in time of the failures: a higher-index workload
\* that failed earlier is never the one surfaced.
C37_LowestIndexFailureSurfaced ==
    (Ended /\ Cardinality(Failed) > 1) =>
        /\ pc = "raised"
        /\ errors = <<Err(LowestFailed)>>
        /\ \A w \in Failed :
              (w # LowestFailed /\ DonePos(w) < DonePos(LowestFailed))
                 => Err(w) \notin {errors[i] : i \in 1..Len(errors)}

\* workload 2 failed in the pool before workload 0 failed on the caller's
\* thread; workload 0's error is the one raised
C37_Witness ==
    /\ pc = "raised"
    /\ nWorkloads = 3
    /\ outcome[0] = "err" /\ outcome[2] = "err"
    /\ DonePos(2) < DonePos(0)
    /\ errors = <<Err(0)>>

(* =================== termination of Executor calls ===================== *)
\* C38: under fair scheduling of the pool threads, when every workload's
\* generator terminates, every fully consumed generator-mode call eventually
\* returns or raises: no deadlock and no lost wake-up, with more workloads
\* than threads and with another call's work items in the same pool.
C38_ConsumedCallEnds == <>Ended

\* three workloads and another call's two work items went through a pool of
\* one thread, and the call returned
C38_Witness ==
    /\ pc = "returned"
    /\ nWorkloads = 3
    /\ num_procs = 1
    /\ otherDone = MaxOther

(* ================= properties of one role-playing round ================ *)
\* the user turn carries no message: msgs is None or an empty list
NoMessage(response) == response.msgs = None \/ response.msgs = ListOf(<<>>)

\* the user turn carries one message, and the predicate accepts it
PredicateFires(response) ==
    /\ response.msgs # None
    /\ Len(response.msgs.items) = 1
    /\ ShouldTerminate(ExecutionStep(response.msgs.items[1], None))

\* the assistant was not run and two empty message lists were handed back
HandsBackEmpty ==
    /\ runPc = "returned"
    /\ invokedRoles = <<"user">>
    /\ runReturn[1].msgs = <<>>
    /\ runReturn[2].msgs = <<>>

\* C39: in a round whose user turn is terminated, has no message, or
\* satisfies the termination predicate, the assistant-role agent is not
\* invoked in that round and the round hands back empty message lists for
\* both roles.
C39_UserTurnEndsRoundQuietly ==
    (/\ user_resp # None
     /\ \/ user_resp.terminated
        \/ NoMessage(user_resp)
        \/ PredicateFires(user_resp))
    => HandsBackEmpty

\* what holds: a terminated user turn, one whose msgs is None, or one whose
\* single message the predicate accepts is handed back empty and the
\* assistant is not run; an empty msgs list makes the round raise
UserTurnEndsRoundUnlessEmptyList ==
    /\ (/\ user_resp # None
        /\ \/ user_resp.terminated
           \/ user_resp.msgs = None
           \/ PredicateFires(user_resp))
       => HandsBackEmpty
    /\ (/\ user_resp # None
        /\ ~user_resp.terminated
        /\ user_resp.msgs = ListOf(<<>>))
       => /\ runPc = "raised"
          /\ runError = RuntimeError
          /\ invokedRoles = <<"user">>

(* ================ properties of the citation rewriting ================= *)
\* the body of the assembled report: the text after the loop over the keys
RewrittenBody == ReplaceKeys(cleaned_text, citation_dict, total_duplicate_map, 1)

\* positions of the text where a [key] placeholder stands
PlaceholderAt(text) ==
    {i \in 1..(Len(text) - 2) :
        \E key \in CitKeys : SubSeq(text, i, i + 2) = Placeholder(key)}

\* the number of superscript openings in the text
SupCount(text) == Cardinality({i \in 1..Len(text) : text[i] = SupOpen})

\* every key of the body cites exactly one URL
BodyKeysCited ==
    \A key \in BodyKeys(cleaned_text) :
        Cardinality(KeyUrls(key)) = 1 /\ <<>> \notin KeyUrls(key)

\* no citation key reads like an assigned global index
NoNumericKey ==
    \A i \in 1..Len(citation_dict), j \in 1..Len(total_duplicate_map) :
        citation_dict[i].key # <<total_duplicate_map[j].val.index>>

\* C40: the substitution rewrites each original [key] placeholder exactly
\* once: a superscript inserted for one key is never rewritten by the
\* substitution of another key, so the marker of every placeholder is the
\* index of its own key's URL, also when keys are numerals that coincide with
\* assigned global indices.
C40_PlaceholdersRewrittenOnce ==
    (rpc = "done" /\ BodyKeysCited) =>
        /\ SupCount(RewrittenBody) = Cardinality(PlaceholderAt(cleaned_text))
        /\ RewrittenBody = ExpectedBody(cleaned_text)

\* what holds: the same, when no key is a numeral that is also an index
RewrittenOnceWithoutNumericKeys ==
    (rpc = "done" /\ BodyKeysCited /\ NoNumericKey) =>
        /\ SupCount(RewrittenBody) = Cardinality(PlaceholderAt(cleaned_text))
        /\ RewrittenBody = ExpectedBody(cleaned_text)

====
